---- MODULE Spec2Model ----
(***************************************************************************)
(* A model of the VideoRobot render pipeline:                              *)
(*   - CaptionSegmenter (src/subtitles.py)                                  *)
(*   - AudioProcessor.normalize and its helpers (src/audio_processor.py)    *)
(*   - _extract_last_json (src/backend/audio_processor.py)                  *)
(* Times are integers counted in ticks, TicksPerMs ticks to a millisecond,  *)
(* so that int(...) truncation of a span in the source is a real division.  *)
(***************************************************************************)
EXTENDS Integers, Sequences, FiniteSets, TLC

VARIABLES
    cfg,            \* the caption settings object handed to CaptionConfig.from_cfg
    config,         \* the CaptionConfig the segmenter is built with
    words,          \* the List[Word] handed to CaptionSegmenter.segment
    chunks,         \* the List[List[Word]] segment returned
    segPc,          \* "input" before the call of segment, "done" after it
    stderr_text,    \* the diagnostic stream handed to _extract_last_json
    jsonResult,     \* the dictionary _extract_last_json returned
    jsonPc,         \* "input" before the call of _extract_last_json, "done" after
    source,         \* normalize's source argument: "not_path", "missing", "exists"
    ncfg,           \* normalize's config argument: target_lufs, target_lra, target_tp
    npc,            \* where normalize stands: "call", the stage about to run, "returned", "raised"
    targets,        \* the LoudnessTargets built from ncfg
    cmds,           \* the external commands issued so far, in order
    running,        \* the indices in cmds of the commands that have not exited
    files,          \* the intermediate files present in the temp directory
    left_stderr,    \* stderr of the left-channel measurement
    right_stderr,   \* stderr of the right-channel measurement
    volume,         \* << >>, or <<[l, r]>>: the volume filters of the gain command
    probe_stderr,   \* stderr of loudnorm pass 1
    pass2_args,     \* << >>, or <<the loudnorm arguments of pass 2>>
    nresult,        \* what normalize returned or raised, and in which stage
    clampArgs,      \* the start, end and offset handed to TimeFormatter.clamp
    clampRet,       \* the (s, e) clamp returned
    clampPc,        \* "input" before the call of clamp, "done" after it
    transcript,     \* the list of word dictionaries handed to SubtitleWriter.write
    wcfg,           \* write's caption settings argument
    ts_off,         \* write's ts_off argument
    ass_file,       \* the content of subs.ass: its sections and Dialogue rows
    srt_file,       \* the content of the .srt file: its numbered blocks
    vtt_file,       \* the content of the .vtt file: its header and cues
    wPc,            \* "call" before write, "returned" after it
    capacity,       \* _ModelCache.capacity
    store,          \* _ModelCache._store: the (key, model) entries, the oldest use first
    lockOwner,      \* the thread inside 'with self._LOCK' of _get_model, 0 for none
    threads,        \* per thread: where it stands in _get_model, its key and its model
    loads,          \* the number of WhisperModel instances built so far
    released,       \* per model instance, how many times _unload_model was called on it
    hist,           \* history of the cache: recency of use, last eviction, loads per key
    jobs,           \* per render job: its step, its request, its error, its temp directory, the external commands it started
    concat_cached,  \* whether the concatenated audio of the segments is in Assets
    tmpfs,          \* the intermediate files present: directory, name, the job that wrote it
    clobbers,       \* the intermediate files written over while their writer was still rendering
    hexIn,          \* the colour given to hex_to_bgr
    hexOut,         \* the result of hex_to_bgr
    hexBack,        \* the result of hex_to_bgr on hexOut
    hexPc,          \* in, out, back: how far the round trip has gone
    assIn,          \* the text given to for_ass, as code points
    assOut,         \* the text for_ass returned
    assPc,          \* in, out: whether for_ass has run
    parseIn,        \* the transcript given to _parse_words
    parseOut,       \* the Word list _parse_words returned
    parsePc,        \* call, parsed: whether _parse_words has run
    fgCalls,        \* the calls made on the first filter-graph builder, in order
    builders,       \* the two filter-graph builders: chains, label counter, current label, calls taken, graph string
    max_inflight,   \* RendererQueue._max_inflight
    rjobs,          \* RendererQueue._jobs: job id to job
    rtasks,         \* the tasks given to the executor: job id to how far _process_job is
    callers,        \* the request threads: how far each is in enqueue, its manifest, job id, result
    enqueues,       \* the number of enqueue calls made
    max_jobs,       \* VR_MAX_JOBS: the number of jobs _cleanup_old_jobs keeps
    JOBS,           \* the job table of the HTTP backend, in insertion order
    workers,        \* per job id: how far its _render_worker is
    lastSeen,       \* per job id: the status the last GET /status answered
    brollArgs,      \* arguments of the schedule_broll call
    brollStart,     \* start_time of schedule_broll
    brollRet,       \* schedule built and returned by schedule_broll
    brollPc         \* call, loop or returned

(***************************************************************************)
(* Bounds of the caption model                                             *)
(***************************************************************************)
MaxLen == 2
MaxTick == 2
TicksPerMs == 2
MaxCapWords == 3
MaxCapMs == 1

(***************************************************************************)
(* Word (src/subtitles.py): start, end in ticks, text a sequence of chars   *)
(***************************************************************************)
Texts == { <<".", "d">>, <<"b", ".">>, <<"?">>, <<"c", "!">> }

\* the dataclass defaults of CaptionConfig
DefaultMaxWordsPerCaption == 8
DefaultMaxCaptionMs == 4500

\* Word.from_dict is the only constructor the program uses: end >= start
Word == { w \in [start : 0..MaxTick, end : 0..MaxTick, text : Texts] :
            w.end >= w.start }

\* is_sentence_end with the test narrowed to the full stop
is_sentence_end_period_only(word) ==
    /\ Len(word.text) >= 1
    /\ word.text[Len(word.text)] = "."

\* str.endswith((".", "?", "!"))
is_sentence_end(word) ==
    /\ Len(word.text) >= 1
    /\ word.text[Len(word.text)] \in {".", "?", "!"}

Max(a, b) == IF a >= b THEN a ELSE b
Min(a, b) == IF a <= b THEN a ELSE b

\* CaptionConfig.from_cfg: max_words_per_caption is floored at 1,
\* max_caption_ms is taken as it is
from_cfg(c) ==
    [max_words_per_caption |-> Max(1, c.max_words_per_caption),
     max_caption_ms        |-> c.max_caption_ms]

\* Python's int() of a quotient: truncation toward zero
TruncDiv(a, b) == IF a >= 0 THEN a \div b ELSE -((-a) \div b)

\* duration_ms = int((current_chunk[-1].end - current_chunk[0].start) * 1000)
duration_ms(current_chunk) ==
    TruncDiv(current_chunk[Len(current_chunk)].end - current_chunk[1].start,
             TicksPerMs)

\* the limit test with ">" where the source has ">="
LimitReachedStrict(current_chunk, conf) ==
    \/ Len(current_chunk) > conf.max_words_per_caption
    \/ duration_ms(current_chunk) > conf.max_caption_ms

\* the limit test of _split_into_chunks
LimitReached(current_chunk, conf) ==
    \/ Len(current_chunk) >= conf.max_words_per_caption
    \/ duration_ms(current_chunk) >= conf.max_caption_ms

\* the trailing flush left out
FlushCurrentDropped(acc, current) == acc

\* "if current: sentences.append(current)" / "if current_chunk: chunks.append(...)"
FlushCurrent(acc, current) ==
    IF current # << >> THEN Append(acc, current) ELSE acc

RECURSIVE SentenceLoop(_, _, _, _)
SentenceLoop(ws, i, sentences, current) ==
    IF i > Len(ws)
    THEN FlushCurrent(sentences, current)
    ELSE LET cur == Append(current, ws[i]) IN
         IF is_sentence_end(ws[i])
         THEN SentenceLoop(ws, i + 1, Append(sentences, cur), << >>)
         ELSE SentenceLoop(ws, i + 1, sentences, cur)

_split_into_sentences(ws) == SentenceLoop(ws, 1, << >>, << >>)

RECURSIVE ChunkLoop(_, _, _, _, _)
ChunkLoop(sentence, i, acc, current_chunk, conf) ==
    IF i > Len(sentence)
    THEN FlushCurrent(acc, current_chunk)
    ELSE LET cur == Append(current_chunk, sentence[i]) IN
         IF LimitReached(cur, conf)
         THEN ChunkLoop(sentence, i + 1, Append(acc, cur), << >>, conf)
         ELSE ChunkLoop(sentence, i + 1, acc, cur, conf)

RECURSIVE SentencesLoop(_, _, _, _)
SentencesLoop(sentences, k, acc, conf) ==
    IF k > Len(sentences)
    THEN acc
    ELSE SentencesLoop(sentences, k + 1,
                       ChunkLoop(sentences[k], 1, acc, << >>, conf), conf)

_split_into_chunks(sentences, conf) == SentencesLoop(sentences, 1, << >>, conf)

segment(ws, conf) == _split_into_chunks(_split_into_sentences(ws), conf)

(***************************************************************************)
(* The caption state machine: a caller holds a word list and a settings    *)
(* object, and calls CaptionSegmenter(CaptionConfig.from_cfg(cfg)).segment *)
(***************************************************************************)
WordLists == UNION { [1..n -> Word] : n \in 0..MaxLen }

CaptionCfgs == [max_words_per_caption : 0..MaxCapWords,
                max_caption_ms        : 0..MaxCapMs]

SegInit ==
    /\ cfg \in CaptionCfgs
    /\ config = [max_words_per_caption |-> DefaultMaxWordsPerCaption,
                 max_caption_ms        |-> DefaultMaxCaptionMs]
    /\ words \in WordLists
    /\ chunks = << >>
    /\ segPc = "input"

\* SubtitleWriter.write: config = CaptionConfig.from_cfg(cfg), then
\* CaptionSegmenter(config).segment(word_objects)
Segment ==
    /\ segPc = "input"
    /\ config' = from_cfg(cfg)
    /\ chunks' = segment(words, config')
    /\ segPc' = "done"
    /\ UNCHANGED <<cfg, words>>


(***************************************************************************)
(* IEEE doubles, as far as the program tells them apart: a finite number   *)
(* (an integer count of dB), NaN, +Infinity, -Infinity                     *)
(***************************************************************************)
Fin(n) == [kind |-> "fin", n |-> n]
NaN == [kind |-> "nan", n |-> 0]
PInf == [kind |-> "inf", n |-> 0]
NInf == [kind |-> "ninf", n |-> 0]

(***************************************************************************)
(* A diagnostic stream is a sequence of tokens: "{", "}", a piece of text  *)
(* that is no JSON ("junk"), or a JSON member "key": value, whose key is   *)
(* the token's k and whose value is its v.                                 *)
(***************************************************************************)
Tok(k) == [k |-> k, v |-> Fin(0)]
Member(k, v) == [k |-> k, v |-> v]
LBrace == Tok("{")
RBrace == Tok("}")
Junk == Tok("junk")

IsBrace(t) == t.k \in {"{", "}"}

EmptyDict == [x \in {} |-> Fin(0)]

\* [^{}]* from position i: the first position that holds a brace, or Len(s) + 1
RECURSIVE SkipNonBrace(_, _)
SkipNonBrace(s, i) ==
    IF i > Len(s) \/ IsBrace(s[i]) THEN i ELSE SkipNonBrace(s, i + 1)

\* (?:\{[^{}]*\}[^{}]*)*\} from position i: the position of the closing brace
\* of the match, or 0 when there is none
RECURSIVE MatchGroups(_, _)
MatchGroups(s, i) ==
    IF i > Len(s) THEN 0
    ELSE IF s[i] = RBrace THEN i
    ELSE \* s[i] is "{": one more group \{[^{}]*\}[^{}]*
         LET j == SkipNonBrace(s, i + 1) IN
         IF j > Len(s) \/ s[j] # RBrace THEN 0
         ELSE MatchGroups(s, SkipNonBrace(s, j + 1))

\* _JSON_PATTERN = \{[^{}]*(?:\{[^{}]*\}[^{}]*)*\} tried at position i: the
\* position where the match ends, or 0
MatchAt(s, i) ==
    IF i > Len(s) \/ s[i] # LBrace THEN 0
    ELSE MatchGroups(s, SkipNonBrace(s, i + 1))

\* for match in _JSON_PATTERN.finditer(stderr_text): last_match = match.group(0)
\* last is <<first, last>> of the latest match, << >> while there is none
RECURSIVE FindIterLast(_, _, _)
FindIterLast(s, pos, last) ==
    IF pos > Len(s) THEN last
    ELSE LET e == MatchAt(s, pos) IN
         IF e > 0 THEN FindIterLast(s, e + 1, <<pos, e>>)
                  ELSE FindIterLast(s, pos + 1, last)

\* the nesting depth after the first n tokens of b
RECURSIVE Depth(_, _)
Depth(b, n) ==
    IF n = 0 THEN 0
    ELSE Depth(b, n - 1) + (IF b[n] = LBrace THEN 1 ELSE IF b[n] = RBrace THEN -1 ELSE 0)

\* json.loads accepts b: one object, braces balanced, members and nested
\* objects only
JsonLoadsOk(b) ==
    /\ Len(b) >= 2
    /\ b[1] = LBrace
    /\ b[Len(b)] = RBrace
    /\ \A n \in 1..Len(b) : b[n] # Junk
    /\ \A n \in 1..(Len(b) - 1) : Depth(b, n) >= 1
    /\ Depth(b, Len(b)) = 0

\* the dictionary json.loads returns for b: the members of the outer object,
\* the last value of a repeated key winning (values of nested objects are
\* never read by the program and are left out)
JsonLoads(b) ==
    LET top == { n \in 2..(Len(b) - 1) : ~IsBrace(b[n]) /\ Depth(b, n) = 1 }
        keys == { b[n].k : n \in top }
        lastOf(k) == CHOOSE n \in top : b[n].k = k /\ \A m \in top : b[m].k = k => m <= n
    IN [k \in keys |-> b[lastOf(k)].v]

\* _extract_last_json of src/backend/audio_processor.py
_extract_last_json(s) ==
    IF s = << >> THEN EmptyDict
    ELSE LET last_match == FindIterLast(s, 1, << >>) IN
         IF last_match = << >> THEN EmptyDict
         ELSE LET text == SubSeq(s, last_match[1], last_match[2]) IN
              IF JsonLoadsOk(text) THEN JsonLoads(text) ELSE EmptyDict

(***************************************************************************)
(* The extraction state machine: a stream arrives, the function is called  *)
(***************************************************************************)
MaxStream == 6

StreamTokens == { LBrace, RBrace, Junk,
                  Member("input_i", Fin(-10)), Member("input_i", Fin(-20)) }

Streams == UNION { [1..n -> StreamTokens] : n \in 0..MaxStream }

JsonInit ==
    /\ stderr_text \in Streams
    /\ jsonResult = EmptyDict
    /\ jsonPc = "input"

ExtractJson ==
    /\ jsonPc = "input"
    /\ jsonResult' = _extract_last_json(stderr_text)
    /\ jsonPc' = "done"
    /\ UNCHANGED stderr_text

(***************************************************************************)
(* AudioProcessor.normalize (src/audio_processor.py)                       *)
(***************************************************************************)
GainMinDb == -24
GainMaxDb == 24
DefaultGainDb == 0
DefaultLRA == 11
DefaultTP == -2
DefaultThresh == -70
DefaultOffset == 0

IsNonFinite(x) == x.kind \in {"nan", "inf", "ninf"}

\* a - b on doubles
FSub(a, b) ==
    IF a.kind = "nan" \/ b.kind = "nan" THEN NaN
    ELSE IF a.kind = "fin" /\ b.kind = "fin" THEN Fin(a.n - b.n)
    ELSE IF a.kind = "fin" THEN (IF b.kind = "inf" THEN NInf ELSE PInf)
    ELSE IF b.kind = "fin" THEN a
    ELSE IF a.kind = b.kind THEN NaN
    ELSE a

\* _sanitize_db without the isnan/isinf guard
_sanitize_db_unguarded(value, min_val, max_val, default) ==
    IF value.kind = "fin" THEN Fin(Max(min_val, Min(max_val, value.n))) ELSE value

\* _sanitize_db
_sanitize_db(value, min_val, max_val, default) ==
    IF IsNonFinite(value) THEN Fin(default)
    ELSE Fin(Max(min_val, Min(max_val, value.n)))

\* _coalesce(stats.get(k1), stats.get(k2), default=d)
_coalesce(stats, k1, k2, d) ==
    IF k1 \in DOMAIN stats THEN stats[k1]
    ELSE IF k2 \in DOMAIN stats THEN stats[k2]
    ELSE d

\* sh() never raising
ShRaisesNever(returncode, check) == FALSE

\* sh(): "if proc.returncode != 0 and check: raise RuntimeError"
ShRaises(returncode, check) == returncode # 0 /\ check

\* the source test with the existence check left out
SourceUsableUnchecked(src) == src # "not_path"

\* "isinstance(source, Path)" and "source.exists()"
SourceUsable(src) == src = "exists"

\* float(x) succeeds: x is there and is a number
FloatOk(x) == x.kind \in {"fin", "nan", "inf", "ninf"}

\* "if not stats" never true
StatsMissingNever(stats) == FALSE

\* "if not stats"
StatsMissing(stats) == stats = EmptyDict

StereoFile == "audio_stereo.wav"
BalancedFile == "audio_balanced.wav"
LoudnormFile == "audio_loudnorm.m4a"

\* the stages in the order normalize reaches them
Stages == <<"probe", "stereo", "measure_l", "measure_r", "gain", "pass1", "pass2">>

\* the file a stage's command reads ("-i"), and the file it writes
StageInput(stage) ==
    IF stage \in {"probe", "stereo"} THEN "source"
    ELSE IF stage \in {"measure_l", "measure_r", "gain"} THEN StereoFile
    ELSE BalancedFile

StageOutput(stage) ==
    IF stage = "stereo" THEN StereoFile
    ELSE IF stage = "gain" THEN BalancedFile
    ELSE IF stage = "pass2" THEN LoudnormFile
    ELSE "-"

\* the check argument sh() is called with
StageCheck(stage) == stage \in {"stereo", "gain", "pass2"}

Raise(kind, at) == [kind |-> kind, at |-> at]

\* gain_left / gain_right of normalize, from one channel's stderr
ChannelGain(t, stderr) ==
    LET stats == _extract_last_json(stderr)
        input == _coalesce(stats, "input_i", "measured_I", t.I)
    IN _sanitize_db(FSub(t.I, input), GainMinDb, GainMaxDb, DefaultGainDb)

\* the loudnorm arguments of pass 2, from the pass-1 report
ApplyFilter(t, stats) ==
    [I               |-> t.I,
     LRA             |-> t.LRA,
     TP              |-> t.TP,
     measured_I      |-> _coalesce(stats, "input_i", "measured_I", t.I),
     measured_LRA    |-> _coalesce(stats, "input_lra", "measured_LRA", Fin(DefaultLRA)),
     measured_TP     |-> _coalesce(stats, "input_tp", "measured_TP", Fin(DefaultTP)),
     measured_thresh |-> _coalesce(stats, "input_thresh", "measured_thresh", Fin(DefaultThresh)),
     offset          |-> _coalesce(stats, "target_offset", "offset", Fin(DefaultOffset))]

(***************************************************************************)
(* The inputs of normalize and what the external tools may answer          *)
(***************************************************************************)
Absent == [kind |-> "absent", n |-> 0]
NonNumeric == [kind |-> "str", n |-> 0]

TargetValues == { Fin(-16), Fin(-23), Absent, NonNumeric }
OtherTargetValues == { Fin(11), Absent }

Report(ms) == <<LBrace>> \o ms \o <<RBrace>>

\* what a channel measurement may print
MeasureStderrs ==
    { << >>,
      Report(<<Member("input_i", Fin(-10))>>),
      Report(<<Member("input_i", Fin(-20))>>),
      Report(<<Member("input_i", Fin(-70))>>),
      Report(<<Member("input_i", NInf)>>),
      Report(<<Member("measured_I", Fin(20))>>),
      Report(<<Member("input_i", NaN)>>),
      Report(<<Member("input_i", PInf)>>) }

FullReport ==
    Report(<<Member("input_i", Fin(-18)), Member("input_lra", Fin(7)),
             Member("input_tp", Fin(-3)), Member("input_thresh", Fin(-28)),
             Member("target_offset", Fin(1))>>)

\* what loudnorm pass 1 may print
ProbeStderrs ==
    { << >>,
      Report(<<Junk>>),
      Report(<< >>),
      FullReport,
      Report(<<Member("input_i", Fin(-30))>>) \o <<Junk>> \o FullReport,
      Report(<<Member("measured_I", Fin(-18)), Member("measured_LRA", Fin(7)),
               Member("measured_TP", Fin(-3)), Member("measured_thresh", Fin(-28)),
               Member("offset", Fin(1))>>),
      Report(<<Member("input_lra", Fin(7)), Member("input_tp", Fin(-3)),
               Member("input_thresh", Fin(-28)), Member("target_offset", Fin(1))>>),
      Report(<<Member("input_i", Fin(-18))>>) }

NormInit ==
    /\ source \in {"not_path", "missing", "exists"}
    /\ ncfg \in [target_lufs : TargetValues,
                 target_lra  : OtherTargetValues,
                 target_tp   : {Fin(-2), NonNumeric}]
    /\ npc = "call"
    /\ targets = [I |-> Fin(0), LRA |-> Fin(0), TP |-> Fin(0)]
    /\ cmds = << >>
    /\ running = {}
    /\ files = {}
    /\ left_stderr = << >>
    /\ right_stderr = << >>
    /\ volume = << >>
    /\ probe_stderr = << >>
    /\ pass2_args = << >>
    /\ nresult = [kind |-> "none", at |-> "none"]

normVars == <<source, ncfg, npc, targets, cmds, running, files, left_stderr,
              right_stderr, volume, probe_stderr, pass2_args, nresult>>

\* normalize up to the call of _ensure_stereo: the checks of source and config
NormalizeEnter ==
    /\ npc = "call"
    /\ IF source = "not_path"
       THEN /\ nresult' = Raise("TypeError", "validate")
            /\ npc' = "raised"
            /\ UNCHANGED targets
       ELSE IF ~SourceUsable(source)
       THEN /\ nresult' = Raise("FileNotFoundError", "validate")
            /\ npc' = "raised"
            /\ UNCHANGED targets
       ELSE IF ~(FloatOk(ncfg.target_lufs) /\ FloatOk(ncfg.target_lra)
                 /\ FloatOk(ncfg.target_tp))
       THEN /\ nresult' = Raise("TypeError", "validate")
            /\ npc' = "raised"
            /\ UNCHANGED targets
       ELSE /\ targets' = [I |-> ncfg.target_lufs, LRA |-> ncfg.target_lra,
                           TP |-> ncfg.target_tp]
            /\ npc' = "probe"
            /\ UNCHANGED nresult
    /\ UNCHANGED <<source, ncfg, cmds, running, files, left_stderr, right_stderr,
                   volume, probe_stderr, pass2_args>>

\* the code of a stage up to its subprocess.run: the wav_file.exists() test
\* of the stages that read an intermediate file, then the process starts
Launch ==
    /\ npc \in {Stages[k] : k \in 1..Len(Stages)}
    /\ running = {}
    /\ IF StageInput(npc) # "source" /\ StageInput(npc) \notin files
       THEN /\ nresult' = Raise("FileNotFoundError", npc)
            /\ npc' = "raised"
            /\ UNCHANGED <<cmds, running>>
       ELSE /\ cmds' = Append(cmds, [stage |-> npc, input |-> StageInput(npc),
                                     output |-> StageOutput(npc), rc |-> -1])
            /\ running' = {Len(cmds) + 1}
            /\ UNCHANGED <<nresult, npc>>
    /\ UNCHANGED <<source, ncfg, targets, files, left_stderr, right_stderr,
                   volume, probe_stderr, pass2_args>>

\* the running command of stage st exits with returncode rc
Exited(st, rc) ==
    /\ npc = st
    /\ running = {Len(cmds)}
    /\ cmds' = [cmds EXCEPT ![Len(cmds)].rc = rc]
    /\ running' = {}

\* ffprobe returns (check=False): the channel count picks the stereo filter
ProbeExit ==
    /\ \E rc \in {0, 1} : Exited("probe", rc)
    /\ npc' = "stereo"
    /\ UNCHANGED <<source, ncfg, targets, files, left_stderr, right_stderr,
                   volume, probe_stderr, pass2_args, nresult>>

\* a command run with check=True returns: it may have written its output
CheckedExit(st, next) ==
    \E rc \in {0, 1}, wrote \in BOOLEAN :
        /\ Exited(st, rc)
        /\ files' = IF wrote THEN files \cup {StageOutput(st)} ELSE files
        /\ IF ShRaises(rc, StageCheck(st))
           THEN /\ nresult' = Raise("RuntimeError", st)
                /\ npc' = "raised"
           ELSE IF next = "returned"
           THEN /\ nresult' = [kind |-> "returned", at |-> StageOutput(st)]
                /\ npc' = "returned"
           ELSE /\ npc' = next
                /\ UNCHANGED nresult

StereoExit ==
    /\ CheckedExit("stereo", "measure_l")
    /\ UNCHANGED <<source, ncfg, targets, left_stderr, right_stderr, volume,
                   probe_stderr, pass2_args>>

MeasureLeftExit ==
    /\ \E rc \in {0, 1} : Exited("measure_l", rc)
    /\ left_stderr' \in MeasureStderrs
    /\ npc' = "measure_r"
    /\ UNCHANGED <<source, ncfg, targets, files, right_stderr, volume,
                   probe_stderr, pass2_args, nresult>>

\* the right-channel measurement returns; normalize computes both gains and
\* _apply_per_channel_gain sanitizes them again for the volume filters
MeasureRightExit ==
    /\ \E rc \in {0, 1} : Exited("measure_r", rc)
    /\ right_stderr' \in MeasureStderrs
    /\ LET gain_left == ChannelGain(targets, left_stderr)
           gain_right == ChannelGain(targets, right_stderr')
       IN volume' = << [l |-> _sanitize_db(gain_left, GainMinDb, GainMaxDb, DefaultGainDb),
                        r |-> _sanitize_db(gain_right, GainMinDb, GainMaxDb, DefaultGainDb)] >>
    /\ npc' = "gain"
    /\ UNCHANGED <<source, ncfg, targets, files, left_stderr, probe_stderr,
                   pass2_args, nresult>>

GainExit ==
    /\ CheckedExit("gain", "pass1")
    /\ UNCHANGED <<source, ncfg, targets, left_stderr, right_stderr, volume,
                   probe_stderr, pass2_args>>

\* pass 1 returns (check=False): no report is fatal, else the pass-2 filter is built
Pass1Exit ==
    /\ \E rc \in {0, 1} : Exited("pass1", rc)
    /\ probe_stderr' \in ProbeStderrs
    /\ LET stats == _extract_last_json(probe_stderr') IN
       IF StatsMissing(stats)
       THEN /\ nresult' = Raise("RuntimeError", "pass1")
            /\ npc' = "raised"
            /\ UNCHANGED pass2_args
       ELSE /\ pass2_args' = <<ApplyFilter(targets, stats)>>
            /\ npc' = "pass2"
            /\ UNCHANGED nresult
    /\ UNCHANGED <<source, ncfg, targets, files, left_stderr, right_stderr, volume>>

Pass2Exit ==
    /\ CheckedExit("pass2", "returned")
    /\ UNCHANGED <<source, ncfg, targets, left_stderr, right_stderr, volume,
                   probe_stderr, pass2_args>>

NormIdle ==
    /\ source = "exists"
    /\ ncfg = [target_lufs |-> Fin(-16), target_lra |-> Fin(11), target_tp |-> Fin(-2)]
    /\ npc = "call"
    /\ targets = [I |-> Fin(0), LRA |-> Fin(0), TP |-> Fin(0)]
    /\ cmds = << >>
    /\ running = {}
    /\ files = {}
    /\ left_stderr = << >>
    /\ right_stderr = << >>
    /\ volume = << >>
    /\ probe_stderr = << >>
    /\ pass2_args = << >>
    /\ nresult = [kind |-> "none", at |-> "none"]

(***************************************************************************)
(* TimeFormatter.clamp (src/subtitles.py)                                  *)
(* Times are doubles counted in ticks.  A double has a bounded significand: *)
(* every integer up to FloatExact is a double, from there to 2 * FloatExact *)
(* the doubles are 2 apart, from there to FloatMax they are 4 apart, and a  *)
(* result beyond FloatMax is an infinity.                                   *)
(***************************************************************************)
FloatExact == 4
FloatMax == 4 * FloatExact

\* the 0.001 s of clamp, in milliseconds and in ticks
MinDurationMs == 1
MinDuration == MinDurationMs * TicksPerMs

Abs(x) == IF x < 0 THEN -x ELSE x

\* the distance between neighbouring doubles at magnitude x
Ulp(x) ==
    IF Abs(x) <= FloatExact THEN 1
    ELSE IF Abs(x) <= 2 * FloatExact THEN 2
    ELSE 4

\* the double nearest to the exact result x, ties to the even significand
RoundToDouble(x) ==
    LET a  == Abs(x)
        u  == Ulp(a)
        lo == (a \div u) * u
        hi == lo + u
        r  == IF a - lo < hi - a THEN lo
              ELSE IF a - lo > hi - a THEN hi
              ELSE IF (lo \div u) % 2 = 0 THEN lo ELSE hi
    IN  IF r > FloatMax THEN (IF x < 0 THEN NInf ELSE PInf)
        ELSE Fin(IF x < 0 THEN -r ELSE r)

FNeg(a) ==
    IF a.kind = "fin" THEN Fin(-a.n)
    ELSE IF a.kind = "inf" THEN NInf
    ELSE IF a.kind = "ninf" THEN PInf
    ELSE NaN

\* a + b on doubles
FAdd(a, b) ==
    IF a.kind = "nan" \/ b.kind = "nan" THEN NaN
    ELSE IF a.kind = "fin" /\ b.kind = "fin" THEN RoundToDouble(a.n + b.n)
    ELSE IF a.kind = "fin" THEN b
    ELSE IF b.kind = "fin" THEN a
    ELSE IF a.kind = b.kind THEN a
    ELSE NaN

\* a < b on doubles: False when either is NaN
FLess(a, b) ==
    IF a.kind = "nan" \/ b.kind = "nan" THEN FALSE
    ELSE IF a.kind = "fin" /\ b.kind = "fin" THEN a.n < b.n
    ELSE IF a.kind = b.kind THEN FALSE
    ELSE a.kind = "ninf" \/ b.kind = "inf"

\* max(0.0, x): the builtin keeps its first argument unless x > 0.0
MaxZero(x) == IF FLess(Fin(0), x) THEN x ELSE Fin(0)

\* TimeFormatter.clamp(start, end, offset)
clamp(start, end, offset) ==
    LET s0 == MaxZero(FAdd(start, offset))
        e0 == MaxZero(FAdd(end, offset))
        nonfinite == IsNonFinite(s0) \/ IsNonFinite(e0)
        s  == IF nonfinite THEN Fin(0) ELSE s0
        e1 == IF nonfinite THEN Fin(MinDuration) ELSE e0
        e2 == IF FLess(e1, s) THEN FAdd(s, Fin(MinDuration)) ELSE e1
        e3 == IF FLess(FAdd(e2, FNeg(s)), Fin(MinDuration))
              THEN FAdd(s, Fin(MinDuration)) ELSE e2
    IN  <<s, e3>>

\* the doubles: the finite ones up to FloatMax, NaN and the infinities
Doubles ==
    { Fin(n) : n \in { k \in -FloatMax..FloatMax : k % Ulp(k) = 0 } }
        \cup { NaN, PInf, NInf }

ClampInit ==
    /\ clampArgs \in [start : Doubles, end : Doubles, offset : Doubles]
    /\ clampRet = <<Fin(0), Fin(0)>>
    /\ clampPc = "input"

Clamp ==
    /\ clampPc = "input"
    /\ clampRet' = clamp(clampArgs.start, clampArgs.end, clampArgs.offset)
    /\ clampPc' = "done"
    /\ UNCHANGED clampArgs

ClampIdle ==
    /\ clampArgs = [start |-> Fin(0), end |-> Fin(0), offset |-> Fin(0)]
    /\ clampRet = <<Fin(0), Fin(0)>>
    /\ clampPc = "input"

(***************************************************************************)
(* SubtitleWriter.write and the three builders (src/subtitles.py)          *)
(* A subtitle file is the sequence of its rows; the text of a row is the   *)
(* sequence of the texts of its chunk's words (no text of the model holds  *)
(* white space, so for_plain leaves the joined text as it is).             *)
(***************************************************************************)
MaxEntries == 2

RawTexts == { <<"a">>, <<"b", ".">> }

\* a transcript entry {"s": s, "e": e, "raw": raw}; a key that is missing is
\* Absent, a value float() rejects is NonNumeric
Entry(s, e, raw) == [s |-> s, e |-> e, raw |-> raw]

\* entries with two finite times, in order or reversed
WellTimedEntries ==
    { Entry(Fin(p[1]), Fin(p[2]), t) :
        p \in { <<0, 1>>, <<1, 3>>, <<3, 1>>, <<2, 2>> }, t \in RawTexts }

BadTimes == { Absent, NonNumeric, NaN, PInf, NInf }

\* entries whose start or end is missing, non-numeric or non-finite
MalformedEntries ==
    { Entry(b, Fin(1), <<"a">>) : b \in BadTimes }
        \cup { Entry(Fin(0), b, <<"a">>) : b \in BadTimes }

Entries == WellTimedEntries \cup MalformedEntries

\* Word.from_dict that returns None for an entry whose end is before its start
from_dict_dropping_reversed(data) ==
    IF ~FloatOk(data.s) \/ ~FloatOk(data.e) THEN << >>
    ELSE IF IsNonFinite(data.s) \/ IsNonFinite(data.e) THEN << >>
    ELSE IF data.e.n < data.s.n THEN << >>
    ELSE << [start |-> data.s.n, end |-> data.e.n, text |-> data.raw] >>

\* Word.from_dict: << >> for None, <<word>> for a Word
from_dict(data) ==
    IF ~FloatOk(data.s) \/ ~FloatOk(data.e) THEN << >>
    ELSE IF IsNonFinite(data.s) \/ IsNonFinite(data.e) THEN << >>
    ELSE << [start |-> data.s.n,
             end   |-> IF data.e.n < data.s.n THEN data.s.n ELSE data.e.n,
             text  |-> data.raw] >>

\* list.sort(key=lambda x: x.start): stable, one word inserted after the
\* sorted words that do not start later
RECURSIVE InsertByStart(_, _)
InsertByStart(w, sorted) ==
    IF sorted = << >> THEN <<w>>
    ELSE IF Head(sorted).start <= w.start
         THEN <<Head(sorted)>> \o InsertByStart(w, Tail(sorted))
         ELSE <<w>> \o sorted

RECURSIVE SortByStart(_, _)
SortByStart(ws, sorted) ==
    IF ws = << >> THEN sorted
    ELSE SortByStart(Tail(ws), InsertByStart(Head(ws), sorted))

RECURSIVE ParseLoop(_, _)
ParseLoop(entries, word_objects) ==
    IF entries = << >> THEN word_objects
    ELSE ParseLoop(Tail(entries), word_objects \o from_dict(Head(entries)))

\* SubtitleWriter._parse_words
_parse_words(entries) == SortByStart(ParseLoop(entries, << >>), << >>)

\* round(n / d) of Python 3: to the nearest integer, a tie to the even one
RoundHalfEven(n, d) ==
    LET q == n \div d
        r == n % d
    IN  IF 2 * r < d THEN q
        ELSE IF 2 * r > d THEN q + 1
        ELSE IF q % 2 = 0 THEN q ELSE q + 1

\* TimeFormatter.to_srt: HH:MM:SS,mmm
to_srt(seconds) ==
    LET ms == RoundHalfEven(Max(0, seconds.n), TicksPerMs)
    IN  [h    |-> ms \div 3600000,
         m    |-> (ms % 3600000) \div 60000,
         s    |-> (ms % 60000) \div 1000,
         frac |-> ms % 1000,
         sep  |-> ","]

\* TimeFormatter.to_vtt: HH:MM:SS.mmm
to_vtt(seconds) == [to_srt(seconds) EXCEPT !.sep = "."]

\* TimeFormatter.to_ass: H:MM:SS.cc
to_ass(seconds) ==
    LET cs == RoundHalfEven(Max(0, seconds.n), 10 * TicksPerMs)
    IN  [h    |-> cs \div 360000,
         m    |-> (cs % 360000) \div 6000,
         s    |-> (cs % 6000) \div 100,
         frac |-> cs % 100,
         sep  |-> "."]

RowText(chunk) == [i \in 1..Len(chunk) |-> chunk[i].text]

\* clamp(chunk[0].start, chunk[-1].end, ts_offset)
ChunkInterval(chunk, ts_offset) ==
    clamp(Fin(chunk[1].start), Fin(chunk[Len(chunk)].end), ts_offset)

\* ASSBuilder._build_header: the Script Info and V4+ Styles sections
_build_header == << "[Script Info]", "[V4+ Styles]" >>

\* ASSBuilder.build: header, events header, one Dialogue row per chunk
ASSBuilder_build(chs, ts_offset) ==
    [sections  |-> _build_header \o << "[Events]" >>,
     dialogues |-> [i \in 1..Len(chs) |->
                      [start |-> to_ass(ChunkInterval(chs[i], ts_offset)[1]),
                       end   |-> to_ass(ChunkInterval(chs[i], ts_offset)[2]),
                       text  |-> RowText(chs[i])]]]

\* SRTBuilder.build with enumerate(chunks) counting from 0
SRTBuilder_build_from_zero(chs, ts_offset) ==
    [i \in 1..Len(chs) |->
        [index |-> i - 1,
         start |-> to_srt(ChunkInterval(chs[i], ts_offset)[1]),
         end   |-> to_srt(ChunkInterval(chs[i], ts_offset)[2]),
         text  |-> RowText(chs[i])]]

\* SRTBuilder.build: enumerate(chunks, start=1)
SRTBuilder_build(chs, ts_offset) ==
    [i \in 1..Len(chs) |->
        [index |-> i,
         start |-> to_srt(ChunkInterval(chs[i], ts_offset)[1]),
         end   |-> to_srt(ChunkInterval(chs[i], ts_offset)[2]),
         text  |-> RowText(chs[i])]]

\* VTTBuilder.build: the WEBVTT header, then one cue per chunk
VTTBuilder_build(chs, ts_offset) ==
    [header |-> "WEBVTT",
     cues   |-> [i \in 1..Len(chs) |->
                   [start |-> to_vtt(ChunkInterval(chs[i], ts_offset)[1]),
                    end   |-> to_vtt(ChunkInterval(chs[i], ts_offset)[2]),
                    text  |-> RowText(chs[i])]]]

\* float(ts_off or 0.0): None and 0 give 0.0
OffsetOf(off) == IF off.kind = "absent" THEN Fin(0) ELSE off

Offsets == { Absent, Fin(0), Fin(-2), Fin(1) }

WriterCfgs ==
    { [max_words_per_caption |-> DefaultMaxWordsPerCaption,
       max_caption_ms        |-> DefaultMaxCaptionMs],
      [max_words_per_caption |-> 1,
       max_caption_ms        |-> DefaultMaxCaptionMs] }

Transcripts ==
    UNION { [1..n -> Entries] : n \in 0..MaxEntries }

WriteInit ==
    /\ transcript \in Transcripts
    /\ wcfg \in WriterCfgs
    /\ ts_off \in Offsets
    /\ ass_file = [sections |-> << >>, dialogues |-> << >>]
    /\ srt_file = << >>
    /\ vtt_file = [header |-> "", cues |-> << >>]
    /\ wPc = "call"

\* SubtitleWriter.write, _write_empty_files included
Write ==
    /\ wPc = "call"
    /\ LET conf         == from_cfg(wcfg)
           ts_offset    == OffsetOf(ts_off)
           word_objects == _parse_words(transcript)
           chs          == segment(word_objects, conf)
       IN  IF transcript = << >> \/ word_objects = << >>
           THEN /\ srt_file' = << >>
                /\ vtt_file' = [header |-> "WEBVTT", cues |-> << >>]
                /\ ass_file' = [sections |-> _build_header, dialogues |-> << >>]
           ELSE /\ ass_file' = ASSBuilder_build(chs, ts_offset)
                /\ srt_file' = SRTBuilder_build(chs, ts_offset)
                /\ vtt_file' = VTTBuilder_build(chs, ts_offset)
    /\ wPc' = "returned"
    /\ UNCHANGED <<transcript, wcfg, ts_off>>

WriteIdle ==
    /\ transcript = << >>
    /\ wcfg = [max_words_per_caption |-> DefaultMaxWordsPerCaption,
               max_caption_ms        |-> DefaultMaxCaptionMs]
    /\ ts_off = Fin(0)
    /\ ass_file = [sections |-> << >>, dialogues |-> << >>]
    /\ srt_file = << >>
    /\ vtt_file = [header |-> "", cues |-> << >>]
    /\ wPc = "call"

(***************************************************************************)
(* _ModelCache and Scheduler._get_model, close, close_all                  *)
(* (src/backend/scheduler.py)                                              *)
(* A model instance is the number of the load that built it, 0 is None.    *)
(* Every method of _ModelCache runs under the cache's own lock and is one  *)
(* step; _get_model is a first lookup, the acquisition of Scheduler._LOCK, *)
(* the second lookup, the load and the put.                                *)
(***************************************************************************)
MaxLoads == 3
MaxCapacity == 2

Threads == { 1, 2 }
CacheKeys == { "tiny", "base", "small" }
NoModel == 0

\* _ModelCache.__init__: capacity = max(1, capacity)
CapacityOf(cap) == Max(1, cap)

StoredKeys(st) == { st[i].key : i \in 1..Len(st) }
StoredModels(st) == { st[i].model : i \in 1..Len(st) }

\* OrderedDict.get(key): the model stored under key, or None
Lookup(st, key) ==
    IF key \in StoredKeys(st)
    THEN (CHOOSE e \in { st[i] : i \in 1..Len(st) } : e.key = key).model
    ELSE NoModel

Without(st, key) == SelectSeq(st, LAMBDA e : e.key # key)

\* OrderedDict.move_to_end(key)
move_to_end(st, key) ==
    Without(st, key) \o << [key |-> key, model |-> Lookup(st, key)] >>

\* _ModelCache.get that leaves the order of the store as it is
get_without_touch(st, key) == [model |-> Lookup(st, key), store |-> st]

\* _ModelCache.get: the model or None, a hit moved to the end of the store
get(st, key) ==
    IF Lookup(st, key) # NoModel
    THEN [model |-> Lookup(st, key), store |-> move_to_end(st, key)]
    ELSE [model |-> NoModel, store |-> st]

\* _ModelCache.put: the new store and the models it unloaded
put(st, cap, key, model) ==
    IF key \in StoredKeys(st)
    THEN [store |-> move_to_end(st, key), unloaded |-> << >>]
    ELSE LET added == st \o << [key |-> key, model |-> model] >>
         IN  IF Len(added) > cap
             THEN [store |-> Tail(added), unloaded |-> << Head(added) >>]
             ELSE [store |-> added, unloaded |-> << >>]

\* _ModelCache.pop that forgets the model without unloading it
pop_without_unload(st, key) == [store |-> Without(st, key), unloaded |-> << >>]

\* _ModelCache.pop
pop(st, key) ==
    [store    |-> Without(st, key),
     unloaded |-> SelectSeq(st, LAMBDA e : e.key = key)]

\* _ModelCache.clear
clear(st) == [store |-> << >>, unloaded |-> st]

\* the second lookup of _get_model left out
second_lookup_skipped(st, key) == [model |-> NoModel, store |-> st]

\* the second lookup of _get_model, under Scheduler._LOCK
second_lookup(st, key) == get(st, key)

\* _unload_model called once for every entry of unloaded
Unload(rel, unloaded) ==
    [m \in DOMAIN rel |->
        rel[m] + Cardinality({ i \in 1..Len(unloaded) : unloaded[i].model = m })]

\* the history the claims speak of
\*   recency:    the stored keys, the least recently used first
\*   evicted:    << >>, or the key the last put evicted and the key that was
\*               the least recently used when it did
\*   epochLoads: per key, the loads since the key last left the cache
\*   everStored: the models that have been in the cache
Touch(h, key) ==
    [h EXCEPT !.recency = SelectSeq(@, LAMBDA k : k # key) \o <<key>>,
              !.evicted = << >>]

Forget(h, unloaded) ==
    LET gone == { unloaded[i].key : i \in 1..Len(unloaded) }
    IN  [h EXCEPT !.recency = SelectSeq(@, LAMBDA k : k \notin gone),
                  !.epochLoads = [k \in CacheKeys |-> IF k \in gone THEN 0 ELSE @[k]]]

\* the threads whose key left the cache no longer have an undisturbed request
Disturb(th, unloaded) ==
    LET gone == { unloaded[i].key : i \in 1..Len(unloaded) }
    IN  [t \in Threads |->
            IF th[t].key \in gone THEN [th[t] EXCEPT !.clean = FALSE] ELSE th[t]]

CacheInit ==
    /\ capacity \in { CapacityOf(c) : c \in 0..MaxCapacity }
    /\ store = << >>
    /\ lockOwner = 0
    /\ threads = [t \in Threads |->
                    [pc |-> "idle", key |-> "tiny", model |-> NoModel,
                     clean |-> FALSE, missed |-> FALSE]]
    /\ loads = 0
    /\ released = [m \in 1..MaxLoads |-> 0]
    /\ hist = [recency |-> << >>, evicted |-> << >>,
               epochLoads |-> [k \in CacheKeys |-> 0], everStored |-> {}]

\* the thread is in no call on the scheduler
Outside(t) == threads[t].pc \in { "idle", "done", "raised" }

\* _get_model up to the first lookup
FirstLookup(t, key) ==
    /\ Outside(t)
    /\ LET r == get(store, key)
       IN  /\ store' = r.store
           /\ threads' = [threads EXCEPT ![t] =
                 [pc     |-> IF r.model # NoModel THEN "done" ELSE "acquire",
                  key    |-> key,
                  model  |-> r.model,
                  clean  |-> TRUE,
                  missed |-> r.model = NoModel]]
           /\ hist' = IF r.model # NoModel THEN Touch(hist, key)
                      ELSE [hist EXCEPT !.evicted = << >>]
    /\ UNCHANGED <<capacity, lockOwner, loads, released>>

\* with self._LOCK
Acquire(t) ==
    /\ threads[t].pc = "acquire"
    /\ lockOwner = 0
    /\ lockOwner' = t
    /\ threads' = [threads EXCEPT ![t].pc = "second"]
    /\ UNCHANGED <<capacity, store, loads, released, hist>>

\* the second lookup; a hit returns and leaves the with block
SecondLookup(t) ==
    /\ threads[t].pc = "second"
    /\ lockOwner = t
    /\ LET r == second_lookup(store, threads[t].key)
       IN  /\ store' = r.store
           /\ threads' = [threads EXCEPT
                 ![t].pc = IF r.model # NoModel THEN "done" ELSE "load",
                 ![t].model = r.model]
           /\ lockOwner' = IF r.model # NoModel THEN 0 ELSE t
           /\ hist' = IF r.model # NoModel THEN Touch(hist, threads[t].key)
                      ELSE [hist EXCEPT !.evicted = << >>]
    /\ UNCHANGED <<capacity, loads, released>>

\* WhisperModel(...) returns a new instance
LoadOk(t) ==
    /\ threads[t].pc = "load"
    /\ loads < MaxLoads
    /\ loads' = loads + 1
    /\ threads' = [threads EXCEPT ![t].pc = "put", ![t].model = loads + 1]
    /\ hist' = [hist EXCEPT !.epochLoads[threads[t].key] = @ + 1]
    /\ UNCHANGED <<capacity, store, lockOwner, released>>

\* WhisperModel(...) raises: RuntimeError leaves the with block
LoadFails(t) ==
    /\ threads[t].pc = "load"
    /\ threads' = [threads EXCEPT ![t].pc = "raised", ![t].model = NoModel]
    /\ lockOwner' = 0
    /\ UNCHANGED <<capacity, store, loads, released, hist>>

\* self._CACHE.put(key, model); return model
PutAndReturn(t) ==
    /\ threads[t].pc = "put"
    /\ LET key == threads[t].key
           lru == IF hist.recency = << >> THEN key ELSE Head(hist.recency)
           r   == put(store, capacity, key, threads[t].model)
           h   == [Forget(Touch(hist, key), r.unloaded) EXCEPT
                     !.everStored = IF key \in StoredKeys(store) THEN @
                                    ELSE @ \cup { threads[t].model }]
       IN  /\ store' = r.store
           /\ released' = Unload(released, r.unloaded)
           /\ hist' = IF r.unloaded = << >> THEN h
                      ELSE [h EXCEPT !.evicted =
                              << [key |-> r.unloaded[1].key, lru |-> lru] >>]
           /\ threads' = [Disturb(threads, r.unloaded) EXCEPT ![t].pc = "done"]
    /\ lockOwner' = 0
    /\ UNCHANGED <<capacity, loads>>

\* Scheduler.close(size)
Close(t, key) ==
    /\ Outside(t)
    /\ LET r == pop(store, key)
           gone == [store |-> Without(store, key),
                    unloaded |-> SelectSeq(store, LAMBDA e : e.key = key)]
       IN  /\ store' = r.store
           /\ released' = Unload(released, r.unloaded)
           /\ hist' = [Forget(hist, gone.unloaded) EXCEPT !.evicted = << >>]
           /\ threads' = Disturb(threads, gone.unloaded)
    /\ UNCHANGED <<capacity, lockOwner, loads>>

\* Scheduler.close_all()
CloseAll(t) ==
    /\ Outside(t)
    /\ LET r == clear(store)
       IN  /\ store' = r.store
           /\ released' = Unload(released, r.unloaded)
           /\ hist' = [Forget(hist, store) EXCEPT !.evicted = << >>]
           /\ threads' = Disturb(threads, store)
    /\ UNCHANGED <<capacity, lockOwner, loads>>

\* transcribe_words: model.transcribe(...) is called on the model that
\* _get_model returned
TranscribeStart(t) ==
    /\ threads[t].pc = "done"
    /\ threads[t].model # NoModel
    /\ threads' = [threads EXCEPT ![t].pc = "transcribing"]
    /\ UNCHANGED <<capacity, store, lockOwner, loads, released, hist>>

\* transcribe_words: the segments are read and the words returned; the
\* thread no longer holds the model
TranscribeReturn(t) ==
    /\ threads[t].pc = "transcribing"
    /\ threads' = [threads EXCEPT ![t] =
          [pc |-> "idle", key |-> "tiny", model |-> NoModel,
           clean |-> FALSE, missed |-> FALSE]]
    /\ UNCHANGED <<capacity, store, lockOwner, loads, released, hist>>

CacheIdle ==
    /\ capacity = 1
    /\ store = << >>
    /\ lockOwner = 0
    /\ threads = [t \in Threads |->
                    [pc |-> "idle", key |-> "tiny", model |-> NoModel,
                     clean |-> FALSE, missed |-> FALSE]]
    /\ loads = 0
    /\ released = [m \in 1..MaxLoads |-> 0]
    /\ hist = [recency |-> << >>, evicted |-> << >>,
               epochLoads |-> [k \in CacheKeys |-> 0], everStored |-> {}]

TranscribeCall == \E t \in Threads : TranscribeStart(t)
TranscribeReturned == \E t \in Threads : TranscribeReturn(t)
GetModelCall == \E t \in Threads, key \in CacheKeys : FirstLookup(t, key)
AcquireLock == \E t \in Threads : Acquire(t)
GetModelRecheck == \E t \in Threads : SecondLookup(t)
ModelLoaded == \E t \in Threads : LoadOk(t)
ModelLoadFailed == \E t \in Threads : LoadFails(t)
GetModelReturn == \E t \in Threads : PutAndReturn(t)
CloseCall == \E t \in Threads, key \in CacheKeys : Close(t, key)
CloseAllCall == \E t \in Threads : CloseAll(t)

(***************************************************************************)
(* Render requests: _render_worker, _build_config_from_json,               *)
(* _concatenate_audio_files (src/main.py, src/backend/main.py),            *)
(* ProjectCfg.validate and from_dict (src/backend/config.py), run_render   *)
(* (src/app.py).                                                           *)
(* Loudness targets are doubles counted in tenths, cta.repeat_s a double   *)
(* counted in hundredths of a second.                                      *)
(***************************************************************************)
TargetLufsMin == -360
TargetLufsMax == -60
TargetLraMin == 10
TargetLraMax == 200
TargetTpMin == -60
TargetTpMax == -1
RepeatMin == 1
RepeatMax == 3600000

\* the arguments _build_config_from_json gives CTACfg
MainRepeat == 12000
BackendRepeat == 0

\* the defaults of AudioCfg
DefaultLufsTenths == -160
DefaultLraTenths == 110
DefaultTpTenths == -20

JobIds == { 1, 2 }

\* PATHS, the module-level Paths every worker is given
PATHS == [tmp |-> "_vr_tmp", assets |-> "Assets"]

\* the fixed names of the intermediate files, in the order they are written
Intermediates ==
    << "audio_stereo.wav", "audio_balanced.wav", "audio_loudnorm.m4a", "subs.ass" >>

\* _validate_float_range with the test "num < min_val or num > max_val"
_validate_float_range_nan_passes(value, min_val, max_val) ==
    \/ value.kind = "nan"
    \/ value.kind = "fin" /\ min_val <= value.n /\ value.n <= max_val

\* _validate_float_range: TRUE when it returns, FALSE when it raises
_validate_float_range(value, min_val, max_val) ==
    /\ value.kind = "fin"
    /\ min_val <= value.n
    /\ value.n <= max_val

\* AudioCfg.validate
AudioCfg_validate(c) ==
    /\ _validate_float_range(c.target_lufs, TargetLufsMin, TargetLufsMax)
    /\ _validate_float_range(c.target_lra, TargetLraMin, TargetLraMax)
    /\ _validate_float_range(c.target_tp, TargetTpMin, TargetTpMax)
    /\ c.filename # ""

\* CTACfg.validate, as far as repeat_s goes
CTACfg_validate(c) == _validate_float_range(c.repeat_s, RepeatMin, RepeatMax)

\* ProjectCfg.validate; others_ok stands for the validators of the remaining
\* fields (captions, figures, bgm, broll, visual, shorts, timestamp_offset)
ProjectCfg_validate(c) ==
    /\ AudioCfg_validate(c)
    /\ c.others_ok
    /\ CTACfg_validate(c)

\* the ProjectCfg a request is turned into, by the path that handles it
BuildConfig(req) ==
    [filename    |-> IF req.path = "from_dict" THEN "voice.m4a"
                     ELSE IF req.segments > 0 THEN "audio"
                     ELSE IF req.path = "main" THEN "voice.m4a" ELSE "",
     target_lufs |-> req.target_lufs,
     target_lra  |-> req.target_lra,
     target_tp   |-> req.target_tp,
     repeat_s    |-> IF req.path = "main" THEN Fin(MainRepeat)
                     ELSE IF req.path = "backend" THEN Fin(BackendRepeat)
                     ELSE req.repeat_s,
     others_ok   |-> req.others_ok /\ (req.path = "backend" => req.segments > 0)]

\* _concatenate_audio_files starts ffmpeg: several files, no cached output
NeedsConcat(req, cached) == req.segments > 1 /\ ~cached

\* Renderer(paths): the orchestrator works in the temp directory of the
\* Paths it is given
RendererTmp(paths) == paths.tmp

LufsValues == { Fin(TargetLufsMin - 1), Fin(TargetLufsMin), Fin(DefaultLufsTenths),
                Fin(TargetLufsMax), Fin(TargetLufsMax + 1), NaN }
LraValues == { Fin(DefaultLraTenths), Fin(TargetLraMin - 1), PInf }
TpValues == { Fin(DefaultTpTenths), Fin(TargetTpMax), Fin(TargetTpMax + 1) }
RepeatValues == { Fin(0), Fin(RepeatMin), Fin(MainRepeat), Fin(-1) }

Request(p, n, i, l, t, r, o) ==
    [path |-> p, segments |-> n, target_lufs |-> i, target_lra |-> l,
     target_tp |-> t, repeat_s |-> r, others_ok |-> o]

\* the requests of the HTTP backends: audio segments and loudness targets
HttpRequests ==
    { Request(p, n, i, l, t, Fin(0), TRUE) :
        p \in { "main", "backend" }, n \in 0..2,
        i \in LufsValues, l \in LraValues, t \in TpValues }

\* the dictionaries handed to ProjectCfg.from_dict
DictRequests ==
    { Request("from_dict", 1, i, l, t, r, o) :
        i \in LufsValues, l \in LraValues, t \in TpValues,
        r \in RepeatValues, o \in BOOLEAN }

\* a request of the HTTP backend with default loudness targets
PlainRequests ==
    { Request("main", n, Fin(DefaultLufsTenths), Fin(DefaultLraTenths),
              Fin(DefaultTpTenths), Fin(0), TRUE) : n \in 1..2 }

\* the first job draws any request, the second a plain one
RequestsOf(j) == IF j = 1 THEN HttpRequests ELSE PlainRequests

NoJob ==
    [pc |-> "idle", req |-> Request("main", 0, Fin(0), Fin(0), Fin(0), Fin(0), TRUE),
     err |-> "", tmp |-> "", step |-> 0, procs |-> {}]

Rendering(j) == jobs[j].pc = "render"

JobsInit ==
    /\ jobs = [j \in JobIds |-> NoJob]
    /\ concat_cached \in BOOLEAN
    /\ tmpfs = {}
    /\ clobbers = {}

\* render_video: a job id, status queued, a worker thread
Submit(j, req) ==
    /\ jobs[j].pc = "idle"
    /\ jobs' = [jobs EXCEPT ![j].pc = "queued", ![j].req = req]
    /\ UNCHANGED <<concat_cached, tmpfs, clobbers>>

\* _render_worker: status running
WorkerStart(j) ==
    /\ jobs[j].pc = "queued"
    /\ jobs' = [jobs EXCEPT ![j].pc = "running"]
    /\ UNCHANGED <<concat_cached, tmpfs, clobbers>>

\* _build_config_from_json up to the audio file name: the segments are
\* copied to Assets and, when there are several, concatenated by ffmpeg
PrepareAudio(j, rc) ==
    /\ jobs[j].pc = "running"
    /\ IF NeedsConcat(jobs[j].req, concat_cached)
       THEN /\ jobs' = [jobs EXCEPT
                  ![j].procs = @ \cup { "ffmpeg concat" },
                  ![j].pc = IF ShRaises(rc, TRUE) THEN "error" ELSE "audio_ready",
                  ![j].err = IF ShRaises(rc, TRUE) THEN "ffmpeg" ELSE ""]
            /\ concat_cached' = ~ShRaises(rc, TRUE)
       ELSE /\ rc = 0
            /\ jobs' = [jobs EXCEPT ![j].pc = "audio_ready"]
            /\ UNCHANGED concat_cached
    /\ UNCHANGED <<tmpfs, clobbers>>

\* the rest of _build_config_from_json: the ProjectCfg and config.validate()
BuildAndValidate(j) ==
    /\ jobs[j].pc = "audio_ready"
    /\ jobs' = [jobs EXCEPT
          ![j].pc = IF ProjectCfg_validate(BuildConfig(jobs[j].req))
                    THEN "validated" ELSE "error",
          ![j].err = IF ProjectCfg_validate(BuildConfig(jobs[j].req))
                     THEN "" ELSE "validation"]
    /\ UNCHANGED <<concat_cached, tmpfs, clobbers>>

\* ProjectCfg.from_dict: the ProjectCfg and config.validate()
FromDict(j, req) ==
    /\ jobs[j].pc = "idle"
    /\ jobs' = [jobs EXCEPT
          ![j].req = req,
          ![j].pc = IF ProjectCfg_validate(BuildConfig(req))
                    THEN "validated" ELSE "error",
          ![j].err = IF ProjectCfg_validate(BuildConfig(req))
                     THEN "" ELSE "validation"]
    /\ UNCHANGED <<concat_cached, tmpfs, clobbers>>

\* run_render, strategy A: CaptionCfg(**clean) lacks font_name and raises
\* TypeError before any ProjectCfg exists
AppRunRender(j) ==
    /\ jobs[j].pc = "idle"
    /\ jobs' = [jobs EXCEPT
          ![j].req = Request("app", 1, Fin(DefaultLufsTenths), Fin(DefaultLraTenths),
                             Fin(DefaultTpTenths), Fin(0), TRUE),
          ![j].pc = "error", ![j].err = "TypeError"]
    /\ UNCHANGED <<concat_cached, tmpfs, clobbers>>

\* renderer = Renderer(PATHS)
RendererInit(j) ==
    /\ jobs[j].pc = "validated"
    /\ jobs' = [jobs EXCEPT ![j].pc = "render", ![j].tmp = RendererTmp(PATHS),
                            ![j].step = 1]
    /\ UNCHANGED <<concat_cached, tmpfs, clobbers>>

\* renderer.render(config): the next intermediate file is written by ffmpeg
\* (subs.ass by SubtitleWriter) under its fixed name in the temp directory
WriteIntermediate(j) ==
    /\ Rendering(j)
    /\ jobs[j].step <= Len(Intermediates)
    /\ LET name == Intermediates[jobs[j].step]
           old  == { f \in tmpfs : f.dir = jobs[j].tmp /\ f.name = name }
           hit  == { f \in old : f.owner # j /\ Rendering(f.owner) }
       IN  /\ tmpfs' = (tmpfs \ old)
                         \cup { [dir |-> jobs[j].tmp, name |-> name, owner |-> j] }
           /\ clobbers' = clobbers
                 \cup { [by |-> j, victim |-> f.owner, name |-> name] : f \in hit }
           /\ jobs' = [jobs EXCEPT ![j].step = @ + 1,
                                   ![j].procs = @ \cup { name }]
    /\ UNCHANGED concat_cached

\* render returned: status done
Finish(j) ==
    /\ Rendering(j)
    /\ jobs[j].step > Len(Intermediates)
    /\ jobs' = [jobs EXCEPT ![j].pc = "done"]
    /\ UNCHANGED <<concat_cached, tmpfs, clobbers>>

JobsIdle ==
    /\ jobs = [j \in JobIds |-> NoJob]
    /\ concat_cached = FALSE
    /\ tmpfs = {}
    /\ clobbers = {}

RenderRequest == \E j \in JobIds : \E req \in RequestsOf(j) : Submit(j, req)
WorkerRuns == \E j \in JobIds : WorkerStart(j)
AudioPrepared == \E j \in JobIds, rc \in { 0, 1 } : PrepareAudio(j, rc)
ConfigBuilt == \E j \in JobIds : BuildAndValidate(j)
ConfigFromDict == \E req \in DictRequests : FromDict(1, req)
AppRender == AppRunRender(1)
RendererCreated == \E j \in JobIds : RendererInit(j)
IntermediateWritten == \E j \in JobIds : WriteIntermediate(j)
RenderReturned == \E j \in JobIds : Finish(j)

(***************************************************************************)
(* ColorConverter.hex_to_bgr (src/subtitles.py).                           *)
(* A string is a sequence of one-character strings.                        *)
(***************************************************************************)
HexDigits == 6

UpperHex == { "3", "5", "7", "F" }
LowerHex == { "f" }
HexChars == UpperHex \cup LowerHex
Whitespace == { " " }

\* str.upper() on one character
UpperChar(c) == IF c = "f" THEN "F" ELSE c

\* str.upper()
Upper(s) == [i \in 1..Len(s) |-> UpperChar(s[i])]

RECURSIVE LStripOf(_, _)
\* str.lstrip(chars)
LStripOf(s, chars) ==
    IF s # <<>> /\ Head(s) \in chars THEN LStripOf(Tail(s), chars) ELSE s

RECURSIVE RStripOf(_, _)
\* str.rstrip(chars)
RStripOf(s, chars) ==
    IF s # <<>> /\ s[Len(s)] \in chars
    THEN RStripOf(SubSeq(s, 1, Len(s) - 1), chars) ELSE s

\* str.strip()
Strip(s) == RStripOf(LStripOf(s, Whitespace), Whitespace)

\* _HEX_PATTERN.match(s): an optional "#", then exactly six hex digits
HexPatternMatches(s) ==
    LET d == IF s # <<>> /\ Head(s) = "#" THEN Tail(s) ELSE s
    IN  /\ Len(d) = HexDigits
        /\ \A i \in 1..HexDigits : d[i] \in HexChars

Str(s) == [isStr |-> TRUE, chars |-> s]
NotAString == [isStr |-> FALSE, chars |-> <<>>]
White == << "F", "F", "F", "F", "F", "F" >>

\* hex_to_bgr returning the pairs as rr, gg, bb
hex_to_bgr_as_rgb(hex_rgb) ==
    IF ~hex_rgb.isStr THEN White
    ELSE LET h == LStripOf(Strip(hex_rgb.chars), { "#" })
         IN  IF ~HexPatternMatches(<< "#" >> \o h) THEN White
             ELSE Upper(SubSeq(h, 1, 2) \o SubSeq(h, 3, 4) \o SubSeq(h, 5, 6))

\* ColorConverter.hex_to_bgr
hex_to_bgr(hex_rgb) ==
    IF ~hex_rgb.isStr THEN White
    ELSE LET h == LStripOf(Strip(hex_rgb.chars), { "#" })
         IN  IF ~HexPatternMatches(<< "#" >> \o h) THEN White
             ELSE Upper(SubSeq(h, 5, 6) \o SubSeq(h, 3, 4) \o SubSeq(h, 1, 2))

\* the byte pairs the colours are made of
BytePairs ==
    { << "F", "F" >>, << "5", "7" >>, << "3", "3" >>, << "f", "f" >>,
      << "f", "5" >>, << "3", "F" >>, << "7", "f" >>, << "F", "f" >> }

SixDigits == { rr \o gg \o bb : rr \in BytePairs, gg \in BytePairs, bb \in BytePairs }

\* the colours given: six digits with or without "#", and the strings and
\* values that are no colour
HexInputs ==
    { Str(d) : d \in SixDigits }
      \cup { Str(<< "#" >> \o d) : d \in SixDigits }
      \cup { Str(<< " ", "#", "F", "f", "5", "7", "3", "3", " " >>),
             Str(<< "#", "#", "F", "F", "5", "7", "3", "3" >>),
             Str(<< "#", "F", "F", "5", "7", "3" >>),
             Str(<< "#", "F", "F", "5", "7", "3", "g" >>),
             Str(<< "#", " ", "F", "F", "5", "7", "3", "3" >>),
             Str(<<>>), NotAString }

HexInit ==
    /\ hexIn \in HexInputs
    /\ hexOut = <<>>
    /\ hexBack = <<>>
    /\ hexPc = "in"

\* bgr = hex_to_bgr(colour)
Convert ==
    /\ hexPc = "in"
    /\ hexOut' = hex_to_bgr(hexIn)
    /\ hexPc' = "out"
    /\ UNCHANGED <<hexIn, hexBack>>

\* hex_to_bgr(bgr)
ConvertBack ==
    /\ hexPc = "out"
    /\ hexBack' = hex_to_bgr(Str(hexOut))
    /\ hexPc' = "back"
    /\ UNCHANGED <<hexIn, hexOut>>

HexIdle ==
    /\ hexIn = NotAString
    /\ hexOut = <<>>
    /\ hexBack = <<>>
    /\ hexPc = "in"

(***************************************************************************)
(* TextSanitizer.for_ass (src/subtitles.py).                               *)
(* A text is the sequence of the code points of its characters.            *)
(***************************************************************************)
MaxText == 3

\* the character class [\x00-\x08\x0B-\x1F\x7F] of the re.sub
RemovedByForAss == (0..8) \cup (11..31) \cup { 127 }

\* the characters str.strip() takes for white space, below U+0080
PyWhitespace == (9..13) \cup (28..32)

\* one str.replace of for_ass: backslash to U+29F5, "{" to "(", "}" to ")"
ReplaceCode(c) ==
    IF c = 92 THEN 10741 ELSE IF c = 123 THEN 40 ELSE IF c = 125 THEN 41 ELSE c

IsKept(c) == c \notin RemovedByForAss

\* TextSanitizer.for_ass
for_ass(text) ==
    LET kept == SelectSeq(text, IsKept)
        repl == [i \in 1..Len(kept) |-> ReplaceCode(kept[i])]
    IN  RStripOf(LStripOf(repl, PyWhitespace), PyWhitespace)

\* NUL, tab, line feed, escape, space, "a", backslash, "{", "}", DEL
TextCodes == { 0, 9, 10, 27, 32, 97, 92, 123, 125, 127 }

RECURSIVE TextsUpTo(_)
TextsUpTo(n) ==
    IF n = 0 THEN { <<>> }
    ELSE TextsUpTo(n - 1)
           \cup { Append(t, c) : t \in { u \in TextsUpTo(n - 1) : Len(u) = n - 1 },
                                 c \in TextCodes }

AssInit ==
    /\ assIn \in TextsUpTo(MaxText)
    /\ assOut = <<>>
    /\ assPc = "in"

\* safe_text = self.text.for_ass(word.text)
Sanitize ==
    /\ assPc = "in"
    /\ assOut' = for_ass(assIn)
    /\ assPc' = "out"
    /\ UNCHANGED assIn

AssIdle ==
    /\ assIn = <<>>
    /\ assOut = <<>>
    /\ assPc = "in"

(***************************************************************************)
(* SubtitleWriter._parse_words on the transcripts a caller may hand in:    *)
(* the entries of the writer model and entries with a negative time, which *)
(* float() accepts like any other number.                                  *)
(***************************************************************************)
NegativeEntries ==
    { Entry(Fin(-1), Fin(1), <<"a">>), Entry(Fin(-1), Fin(-2), <<"b", ".">>),
      Entry(Fin(0), Fin(-1), <<"a">>) }

ParsedTranscripts ==
    UNION { [1..n -> Entries \cup NegativeEntries] : n \in 0..MaxEntries }

ParseInit ==
    /\ parseIn \in ParsedTranscripts
    /\ parseOut = << >>
    /\ parsePc = "call"

\* word_objects = self._parse_words(words)
ParseWords ==
    /\ parsePc = "call"
    /\ parseOut' = _parse_words(parseIn)
    /\ parsePc' = "parsed"
    /\ UNCHANGED parseIn

ParseIdle ==
    /\ parseIn = << >>
    /\ parseOut = << >>
    /\ parsePc = "call"

(***************************************************************************)
(* FilterGraphBuilder (spec.md 3 and 4.2; the class is not among the       *)
(* sources).  A chain is a record of its input labels, its filter and its  *)
(* output label; the graph string is the sequence of the chains with a     *)
(* ";" between two of them.  Two builders are driven by one sequence of    *)
(* calls: the first as the calls are made, the second replaying them.      *)
(***************************************************************************)
MaxCalls == 3

Builders == { "first", "second" }

\* the label the builder would allocate next: v0, v1, ...
NewLabel(b) == << "v", b.counter >>

\* the label of a raw input stream
InputLabel(inputIndex) == << "in", inputIndex >>

Chain(ins, filter, out) == [ins |-> ins, filter |-> filter, out |-> out]

NewBuilder == [chains |-> << >>, counter |-> 0, current |-> << >>,
               calls |-> 0, graph |-> << >>, finalized |-> FALSE]

\* a builder whose label counter is never advanced
Advance_stuck(b, chains, n) ==
    [b EXCEPT !.chains = @ \o chains,
              !.current = chains[Len(chains)].out,
              !.calls = @ + 1]

\* the chains are appended, n labels are used up, the last output is current
Advance(b, chains, n) ==
    [b EXCEPT !.chains = @ \o chains,
              !.counter = @ + n,
              !.current = chains[Len(chains)].out,
              !.calls = @ + 1]

\* addBase(inputIndex, filterExpr)
addBase(b, inputIndex, filterExpr) ==
    Advance(b, << Chain(<< InputLabel(inputIndex) >>, << filterExpr, "" >>, NewLabel(b)) >>, 1)

\* addScaledInput(inputIndex, label): "current" stays what it was
addScaledInput(b, inputIndex, label) ==
    [b EXCEPT !.chains = Append(@, Chain(<< InputLabel(inputIndex) >>,
                                         << "scale,format=rgba,setpts", "" >>,
                                         << "name", label >>)),
              !.calls = @ + 1]

\* overlay(label, enableExpr?)
overlay(b, label, enableExpr) ==
    Advance(b, << Chain(<< b.current, << "name", label >> >>,
                        << "overlay", enableExpr >>, NewLabel(b)) >>, 1)

\* chromaKeyOverlay(inputIndex, keyColor, similarity, blend, enableExpr)
chromaKeyOverlay(b, inputIndex, key, enableExpr) ==
    LET keyed == NewLabel(b)
        over  == NewLabel([b EXCEPT !.counter = @ + 1])
    IN  Advance(b, << Chain(<< InputLabel(inputIndex) >>,
                            << "scale,format=rgba,colorkey", key >>, keyed),
                      Chain(<< b.current, keyed >>,
                            << "overlay", enableExpr >>, over) >>, 2)

\* burnSubtitles(assPath, fontsDir, fontName, marginV)
burnSubtitles(b, assPath) ==
    Advance(b, << Chain(<< b.current >>, << "subtitles", assPath >>, NewLabel(b)) >>, 1)

\* the pieces of a graph string: the text of a chain, or the ";" between two
Piece(chain) == [text |-> "chain", chain |-> chain]
Separator == [text |-> ";", chain |-> Chain(<< >>, << >>, << >>)]

RECURSIVE JoinChains(_)
\* ";".join(chains)
JoinChains(chains) ==
    IF chains = << >> THEN << >>
    ELSE IF Len(chains) = 1 THEN << Piece(chains[1]) >>
    ELSE << Piece(chains[1]), Separator >> \o JoinChains(Tail(chains))

\* finalize(): the pixel-format stage is appended, the graph string returned
finalize(b) ==
    LET chains == Append(b.chains, Chain(<< b.current >>, << "format=yuv420p", "" >>, << "name", "vout" >>))
    IN  [b EXCEPT !.chains = chains, !.graph = JoinChains(chains),
                  !.calls = @ + 1, !.finalized = TRUE]

\* the add calls a render may make
AddCalls ==
    { [op |-> "addBase", inputIndex |-> 0, arg |-> "zoompan"],
      [op |-> "addScaledInput", inputIndex |-> 2, arg |-> "intro"],
      [op |-> "overlay", inputIndex |-> 2, arg |-> "between(t,0,3)"],
      [op |-> "overlay", inputIndex |-> 2, arg |-> ""],
      [op |-> "chromaKeyOverlay", inputIndex |-> 3, arg |-> "gte(t,30)*eq(mod(t-30,120),0)"],
      [op |-> "burnSubtitles", inputIndex |-> 0, arg |-> "subs.ass"] }

FinalizeCall == [op |-> "finalize", inputIndex |-> 0, arg |-> ""]

\* the builder after one call
ApplyCall(b, c) ==
    CASE c.op = "addBase"          -> addBase(b, c.inputIndex, c.arg)
      [] c.op = "addScaledInput"   -> addScaledInput(b, c.inputIndex, c.arg)
      [] c.op = "overlay"          -> overlay(b, "intro", c.arg)
      [] c.op = "chromaKeyOverlay" -> chromaKeyOverlay(b, c.inputIndex, "0x00FF00", c.arg)
      [] c.op = "burnSubtitles"    -> burnSubtitles(b, c.arg)
      [] c.op = "finalize"         -> finalize(b)

FgInit ==
    /\ fgCalls = << >>
    /\ builders = [x \in Builders |-> NewBuilder]

\* the render makes one more add call on the first builder
BuilderAdd ==
    \E c \in AddCalls :
        /\ ~builders["first"].finalized
        /\ Len(fgCalls) < MaxCalls
        /\ fgCalls' = Append(fgCalls, c)
        /\ builders' = [builders EXCEPT !["first"] = ApplyCall(@, c)]

\* the render finalizes the first builder
BuilderFinalize ==
    /\ ~builders["first"].finalized
    /\ fgCalls' = Append(fgCalls, FinalizeCall)
    /\ builders' = [builders EXCEPT !["first"] = ApplyCall(@, FinalizeCall)]

\* the second builder is given the next call of the same sequence
BuilderReplay ==
    /\ builders["second"].calls < Len(fgCalls)
    /\ builders' = [builders EXCEPT
          !["second"] = ApplyCall(@, fgCalls[builders["second"].calls + 1])]
    /\ UNCHANGED fgCalls

FgIdle ==
    /\ fgCalls = << >>
    /\ builders = [x \in Builders |-> NewBuilder]

(***************************************************************************)
(* RendererQueue (src/backend/renderer_service.py) and                     *)
(* VideoComposer.prepare_manifest (src/backend/renderer.py).               *)
(* Request threads call enqueue; the executor's workers run _process_job.  *)
(* A job id is the number of the enqueue call that drew it (uuid4 never    *)
(* repeats); the job table maps the ids registered so far to their jobs.   *)
(***************************************************************************)
MaxEnqueues == 2
MaxInflight == 2

\* ThreadPoolExecutor(max_workers=2)
MaxWorkers == 2

NoJobId == 0

Callers == { "r1", "r2" }

\* the manifests: one that prepares, one without tracks, one naming an
\* asset that is not there
Manifests == { "ok", "no tracks", "asset not found" }

\* VideoComposer.prepare_manifest: "" when it returns, else what it raises
prepare_manifest(manifest) ==
    IF manifest = "no tracks" THEN "ValueError"
    ELSE IF manifest = "asset not found" THEN "FileNotFoundError"
    ELSE ""

\* the number of jobs queued or running
Inflight(table) ==
    Cardinality({ id \in DOMAIN table : table[id].state \in { "queued", "running" } })

\* RendererQueue._can_accept
_can_accept(table, limit) == Inflight(table) < limit

\* the job enqueue builds
QueuedJob(id) ==
    [job_id |-> id, state |-> "queued", pct |-> 0, mp4 |-> << >>, error |-> ""]

\* enqueue that puts the job in the table whatever prepare_manifest did
register_unprepared(table, id, raised) == table @@ (id :> QueuedJob(id))

\* enqueue, from prepare_manifest to "self._jobs[job_id] = job": nothing is
\* stored when prepare_manifest raised
register(table, id, raised) ==
    IF raised # "" THEN table ELSE table @@ (id :> QueuedJob(id))

\* RendererQueue._update_job: the fields given replace the job's
_update_job(table, id, fields) ==
    IF id \notin DOMAIN table THEN table
    ELSE [table EXCEPT ![id] = fields @@ @]

\* the fields of the except clause of _process_job, with pct left out as 0
ErrorFields_pct0(exc) == [state |-> "error", pct |-> 0, error |-> exc]

\* the fields of the except clause of _process_job
ErrorFields(exc) == [state |-> "error", pct |-> 100, error |-> exc]

\* the fields of the last update of a job that succeeded
SuccessFields(id) == [state |-> "success", pct |-> 100, mp4 |-> << "final.mp4", id >>]

\* the tasks a worker thread is busy with
Busy(tasks) == { id \in DOMAIN tasks : tasks[id] \notin { "pending", "finished" } }

IdleCaller == [pc |-> "idle", manifest |-> "ok", job_id |-> NoJobId,
               ret |-> NoJobId, exc |-> ""]

QueueInit ==
    /\ max_inflight \in 1..MaxInflight
    /\ rjobs = << >>
    /\ rtasks = << >>
    /\ callers = [c \in Callers |-> IdleCaller]
    /\ enqueues = 0

\* enqueue is called: _can_accept, then uuid4 and the job directory
EnqueueCall(c, manifest) ==
    /\ callers[c].pc \in { "idle", "returned", "raised" }
    /\ enqueues < MaxEnqueues
    /\ enqueues' = enqueues + 1
    /\ callers' = [callers EXCEPT ![c] =
          IF _can_accept(rjobs, max_inflight)
          THEN [pc |-> "accepted", manifest |-> manifest, job_id |-> enqueues + 1,
                ret |-> NoJobId, exc |-> ""]
          ELSE [pc |-> "raised", manifest |-> manifest, job_id |-> NoJobId,
                ret |-> NoJobId, exc |-> "QueueFullError"]]
    /\ UNCHANGED <<max_inflight, rjobs, rtasks>>

\* enqueue: prepare_manifest and, when it returned, the job stored under the lock
PrepareAndRegister(c) ==
    /\ callers[c].pc = "accepted"
    /\ LET raised == prepare_manifest(callers[c].manifest)
       IN  /\ rjobs' = register(rjobs, callers[c].job_id, raised)
           /\ callers' = [callers EXCEPT
                 ![c].pc = IF raised = "" THEN "registered" ELSE "raised",
                 ![c].exc = raised]
    /\ UNCHANGED <<max_inflight, rtasks, enqueues>>

\* enqueue: self._executor.submit(...) and the return of the job id
SubmitAndReturn(c) ==
    /\ callers[c].pc = "registered"
    /\ rtasks' = rtasks @@ (callers[c].job_id :> "pending")
    /\ callers' = [callers EXCEPT ![c].pc = "returned", ![c].ret = callers[c].job_id]
    /\ UNCHANGED <<max_inflight, rjobs, enqueues>>

\* a worker takes the task: _process_job sets running, pct 10
ProcessStart(id) ==
    /\ id \in DOMAIN rtasks /\ rtasks[id] = "pending"
    /\ Cardinality(Busy(rtasks)) < MaxWorkers
    /\ rjobs' = _update_job(rjobs, id, [state |-> "running", pct |-> 10])
    /\ rtasks' = [rtasks EXCEPT ![id] = "started"]
    /\ UNCHANGED <<max_inflight, callers, enqueues>>

\* one stage of the try block returns, and the update after it is made
ProcessStage(id, from, to, pct) ==
    /\ id \in DOMAIN rtasks /\ rtasks[id] = from
    /\ rjobs' = _update_job(rjobs, id, [pct |-> pct])
    /\ rtasks' = [rtasks EXCEPT ![id] = to]
    /\ UNCHANGED <<max_inflight, callers, enqueues>>

\* install_ffmpeg_if_needed returned: pct 20
FfmpegReady(id) == ProcessStage(id, "started", "loading", 20)

\* composer.compose returned: pct 70
Composed(id) == ProcessStage(id, "loading", "encoded", 70)

\* the duration and the inputs hash are read: pct 95
Probed(id) == ProcessStage(id, "encoded", "finalising", 95)

\* the report is written and the output copied: success, pct 100, result.mp4
ProcessSuccess(id) ==
    /\ id \in DOMAIN rtasks /\ rtasks[id] = "finalising"
    /\ rjobs' = _update_job(rjobs, id, SuccessFields(id))
    /\ rtasks' = [rtasks EXCEPT ![id] = "finished"]
    /\ UNCHANGED <<max_inflight, callers, enqueues>>

\* a stage of the try block raises: error.json is written, error, pct 100
ProcessError(id, exc) ==
    /\ id \in DOMAIN rtasks
    /\ rtasks[id] \in { "started", "loading", "encoded", "finalising" }
    /\ rjobs' = _update_job(rjobs, id, ErrorFields(exc))
    /\ rtasks' = [rtasks EXCEPT ![id] = "finished"]
    /\ UNCHANGED <<max_inflight, callers, enqueues>>

\* the steps of the worker that runs job id
ProcessStep(id) ==
    \/ ProcessStart(id)
    \/ FfmpegReady(id)
    \/ Composed(id)
    \/ Probed(id)
    \/ ProcessSuccess(id)
    \/ ProcessError(id, "RuntimeError")

QueueIdle ==
    /\ max_inflight = 1
    /\ rjobs = << >>
    /\ rtasks = << >>
    /\ callers = [c \in Callers |-> IdleCaller]
    /\ enqueues = 0

QueueIds == 1..MaxEnqueues

EnqueueCalled == \E c \in Callers, m \in Manifests : EnqueueCall(c, m)
EnqueuePrepared == \E c \in Callers : PrepareAndRegister(c)
EnqueueReturned == \E c \in Callers : SubmitAndReturn(c)
JobStarted == \E id \in QueueIds : ProcessStart(id)
JobFfmpegReady == \E id \in QueueIds : FfmpegReady(id)
JobComposed == \E id \in QueueIds : Composed(id)
JobProbed == \E id \in QueueIds : Probed(id)
JobSucceeded == \E id \in QueueIds : ProcessSuccess(id)
JobFailed == \E id \in QueueIds : ProcessError(id, "RuntimeError")

(***************************************************************************)
(* The job table of the HTTP backend: JOBS, _update_job, _cleanup_old_jobs, *)
(* _render_worker, render_video and /status (src/main.py; the same code is *)
(* in src/backend/main.py).  JOBS is a dict: its jobs in insertion order.  *)
(* A job id is the number of the request that drew it.                     *)
(***************************************************************************)
MaxRequests == 2
MaxKept == 1

\* the job _update_job inserts for an id that is not in JOBS
DefaultJob(id) == [id |-> id, status |-> "queued", pct |-> 0]

HasJob(table, id) == \E i \in 1..Len(table) : table[i].id = id

\* _update_job of the HTTP backend: JOBS.setdefault(job_id, {...}).update(fields)
_update_job_http(table, id, fields) ==
    LET present == IF HasJob(table, id) THEN table ELSE Append(table, DefaultJob(id))
    IN  [i \in 1..Len(present) |->
            IF present[i].id = id THEN fields @@ present[i] ELSE present[i]]

\* _cleanup_old_jobs: the oldest jobs beyond max_jobs are dropped
_cleanup_old_jobs(table, limit) ==
    IF Len(table) <= limit THEN table
    ELSE SubSeq(table, Len(table) - limit + 1, Len(table))

\* _get_job_status: the place of the job in JOBS, 0 when JOBS has no such job
_get_job_status(table, id) ==
    IF HasJob(table, id)
    THEN (CHOOSE i \in 1..Len(table) : table[i].id = id)
    ELSE 0

RequestIds == 1..MaxRequests

TableInit ==
    /\ max_jobs \in 1..MaxKept
    /\ JOBS = << >>
    /\ workers = [id \in RequestIds |-> "none"]
    /\ lastSeen = [id \in RequestIds |-> "none"]

\* render_video: the job is stored as queued and its worker thread started
RenderVideo(id) ==
    /\ workers[id] = "none"
    /\ \A other \in RequestIds : other < id => workers[other] # "none"
    /\ JOBS' = _update_job_http(JOBS, id, [status |-> "queued", pct |-> 1])
    /\ workers' = [workers EXCEPT ![id] = "started"]
    /\ UNCHANGED <<max_jobs, lastSeen>>

\* _render_worker: status running, 5 percent
WorkerRunning(id) ==
    /\ workers[id] = "started"
    /\ JOBS' = _update_job_http(JOBS, id, [status |-> "running", pct |-> 5])
    /\ workers' = [workers EXCEPT ![id] = "building"]
    /\ UNCHANGED <<max_jobs, lastSeen>>

\* _render_worker: the configuration is built, progress 35 percent
WorkerProgress(id) ==
    /\ workers[id] = "building"
    /\ JOBS' = _update_job_http(JOBS, id, [pct |-> 35])
    /\ workers' = [workers EXCEPT ![id] = "rendering"]
    /\ UNCHANGED <<max_jobs, lastSeen>>

\* _render_worker: render returned, status done
WorkerDone(id) ==
    /\ workers[id] = "rendering"
    /\ JOBS' = _update_job_http(JOBS, id, [status |-> "done", pct |-> 100])
    /\ workers' = [workers EXCEPT ![id] = "cleanup"]
    /\ UNCHANGED <<max_jobs, lastSeen>>

\* _render_worker: the configuration or the render raised, status error
WorkerError(id) ==
    /\ workers[id] \in { "building", "rendering" }
    /\ JOBS' = _update_job_http(JOBS, id, [status |-> "error", pct |-> 0])
    /\ workers' = [workers EXCEPT ![id] = "cleanup"]
    /\ UNCHANGED <<max_jobs, lastSeen>>

\* _render_worker, finally: _cleanup_old_jobs(max_jobs)
WorkerCleanup(id) ==
    /\ workers[id] = "cleanup"
    /\ JOBS' = _cleanup_old_jobs(JOBS, max_jobs)
    /\ workers' = [workers EXCEPT ![id] = "ended"]
    /\ UNCHANGED <<max_jobs, lastSeen>>

\* GET /status?jobId=id answers with the job's status
JobStatus(id) ==
    /\ HasJob(JOBS, id)
    /\ lastSeen' = [lastSeen EXCEPT ![id] = JOBS[_get_job_status(JOBS, id)].status]
    /\ UNCHANGED <<max_jobs, JOBS, workers>>

TableIdle ==
    /\ max_jobs = 1
    /\ JOBS = << >>
    /\ workers = [id \in RequestIds |-> "none"]
    /\ lastSeen = [id \in RequestIds |-> "none"]

RenderPosted == \E id \in RequestIds : RenderVideo(id)
WorkerSetsRunning == \E id \in RequestIds : WorkerRunning(id)
WorkerSetsProgress == \E id \in RequestIds : WorkerProgress(id)
WorkerSetsDone == \E id \in RequestIds : WorkerDone(id)
WorkerSetsError == \E id \in RequestIds : WorkerError(id)
WorkerCleansUp == \E id \in RequestIds : WorkerCleanup(id)
StatusPolled == \E id \in RequestIds : JobStatus(id)

(***************************************************************************)
(* Scheduler.schedule_broll (src/backend/scheduler.py).  Times are floats  *)
(* of seconds, held in ticks: a finite value is Fin(ticks) with TicksPerMs *)
(* ticks to the millisecond, so that round(x, 3) has digits to drop.       *)
(***************************************************************************)
MaxBroll == 100

Ms(n) == n * TicksPerMs

\* a < b and a <= b of two floats: False as soon as one side is NaN
BLess(a, b) ==
    /\ a.kind # "nan" /\ b.kind # "nan"
    /\ \/ a.kind = "ninf" /\ b.kind # "ninf"
       \/ a.kind # "inf" /\ b.kind = "inf"
       \/ a.kind = "fin" /\ b.kind = "fin" /\ a.n < b.n

BLessEq(a, b) ==
    /\ a.kind # "nan" /\ b.kind # "nan"
    /\ (BLess(a, b) \/ a = b)

\* max(a, b) and min(a, b) of Python: the first argument unless the second
\* compares greater (smaller)
BMax(a, b) == IF BLess(a, b) THEN b ELSE a
BMin(a, b) == IF BLess(b, a) THEN b ELSE a

\* a + b
BAdd(a, b) ==
    IF a.kind = "nan" \/ b.kind = "nan" THEN NaN
    ELSE IF a.kind = "fin" /\ b.kind = "fin" THEN Fin(a.n + b.n)
    ELSE IF a.kind = "fin" THEN b
    ELSE IF b.kind = "fin" \/ a = b THEN a
    ELSE NaN

\* round(x, 3): the nearest millisecond, ties to even; inf and nan unchanged
round3(x) ==
    IF x.kind = "fin" THEN Fin(Ms(RoundHalfEven(x.n, TicksPerMs))) ELSE x

\* step = max(duration_s + 0.1, every_s) if every_s > 0 else math.inf
BrollStep(every_s, duration_s) ==
    IF BLess(Fin(0), every_s)
    THEN BMax(BAdd(duration_s, Fin(Ms(100))), every_s)
    ELSE PInf

\* while start_time < total_dur - 0.25 and len(schedule) < 100
BrollWhile(start_time, schedule, total_dur) ==
    /\ BLess(start_time, BAdd(total_dur, Fin(-Ms(250))))
    /\ Len(schedule) < MaxBroll

\* the arguments of a call: whole and fractional milliseconds, the values
\* at the thresholds of the guard, and the floats that are not numbers
BrollTotals ==
    { Fin(Ms(100)), Fin(Ms(300)), Fin(Ms(1000)),
      Fin(Ms(1001) + TicksPerMs - 1), PInf, NaN }
BrollFirsts == { Fin(-Ms(10)), Fin(0), Fin(Ms(200)), PInf, NaN }
BrollEverys == { Fin(-1), Fin(0), Fin(Ms(1)), Fin(Ms(500)), PInf, NaN }
BrollDurations ==
    { Fin(Ms(50)), Fin(Ms(51)), Fin(Ms(400)), Fin(Ms(5000)), PInf, NaN }

NoBrollArgs ==
    [total_dur |-> Fin(0), use |-> FALSE, first_at |-> Fin(0),
     every_s |-> Fin(0), duration_s |-> Fin(0)]

BrollInit ==
    /\ brollArgs \in [total_dur : BrollTotals, use : BOOLEAN,
                      first_at : BrollFirsts, every_s : BrollEverys,
                      duration_s : BrollDurations]
    /\ brollStart = Fin(0)
    /\ brollRet = << >>
    /\ brollPc = "call"

\* entry of schedule_broll: the guard, then start_time and the empty schedule
BrollCall ==
    /\ brollPc = "call"
    /\ IF ~brollArgs.use \/ BLessEq(brollArgs.total_dur, Fin(Ms(100)))
                         \/ BLessEq(brollArgs.duration_s, Fin(Ms(50)))
       THEN /\ brollPc' = "returned"
            /\ UNCHANGED brollStart
       ELSE /\ brollStart' = BMax(Fin(0), brollArgs.first_at)
            /\ brollPc' = "loop"
    /\ brollRet' = << >>
    /\ UNCHANGED brollArgs

\* one pass of the loop body: append the rounded interval, then break on an
\* infinite step or advance start_time
BrollIterate ==
    /\ brollPc = "loop"
    /\ BrollWhile(brollStart, brollRet, brollArgs.total_dur)
    /\ LET step == BrollStep(brollArgs.every_s, brollArgs.duration_s)
           end_time == BMin(brollArgs.total_dur,
                            BAdd(brollStart, brollArgs.duration_s))
       IN  /\ brollRet' = Append(brollRet,
                                 <<round3(brollStart), round3(end_time)>>)
           /\ IF step.kind # "fin"
              THEN /\ brollPc' = "returned"
                   /\ UNCHANGED brollStart
              ELSE /\ brollStart' = BAdd(brollStart, step)
                   /\ UNCHANGED brollPc
    /\ UNCHANGED brollArgs

\* the loop condition fails: return schedule
BrollReturn ==
    /\ brollPc = "loop"
    /\ ~BrollWhile(brollStart, brollRet, brollArgs.total_dur)
    /\ brollPc' = "returned"
    /\ UNCHANGED <<brollArgs, brollStart, brollRet>>

BrollIdle ==
    /\ brollArgs = NoBrollArgs
    /\ brollStart = Fin(0)
    /\ brollRet = << >>
    /\ brollPc = "call"

vars == <<cfg, config, words, chunks, segPc, stderr_text, jsonResult,
          jsonPc, source, ncfg, npc, targets, cmds, running, files,
          left_stderr, right_stderr, volume, probe_stderr, pass2_args,
          nresult, clampArgs, clampRet, clampPc, transcript, wcfg, ts_off,
          ass_file, srt_file, vtt_file, wPc, capacity, store, lockOwner,
          threads, loads, released, hist, jobs, concat_cached, tmpfs,
          clobbers, hexIn, hexOut, hexBack, hexPc, assIn, assOut, assPc,
          parseIn, parseOut, parsePc, fgCalls, builders, max_inflight,
          rjobs, rtasks, callers, enqueues, max_jobs, JOBS, workers,
          lastSeen, brollArgs, brollStart, brollRet, brollPc>>

segVars == <<cfg, config, words, chunks, segPc>>
jsonVars == <<stderr_text, jsonResult, jsonPc>>
clampVars == <<clampArgs, clampRet, clampPc>>
writeVars == <<transcript, wcfg, ts_off, ass_file, srt_file, vtt_file, wPc>>
cacheVars == <<capacity, store, lockOwner, threads, loads, released, hist>>
jobVars == <<jobs, concat_cached, tmpfs, clobbers>>
hexVars == <<hexIn, hexOut, hexBack, hexPc>>
assVars == <<assIn, assOut, assPc>>
parseVars == <<parseIn, parseOut, parsePc>>
fgVars == <<fgCalls, builders>>
queueVars == <<max_inflight, rjobs, rtasks, callers, enqueues>>
tableVars == <<max_jobs, JOBS, workers, lastSeen>>
brollVars == <<brollArgs, brollStart, brollRet, brollPc>>

\* the caption component before any call, the state it has in the other
\* specifications
SegIdle ==
    /\ cfg = [max_words_per_caption |-> DefaultMaxWordsPerCaption,
              max_caption_ms        |-> DefaultMaxCaptionMs]
    /\ config = cfg
    /\ words = << >>
    /\ chunks = << >>
    /\ segPc = "input"

JsonIdle ==
    /\ stderr_text = << >>
    /\ jsonResult = EmptyDict
    /\ jsonPc = "input"

InitSeg ==
    /\ SegInit
    /\ JsonIdle
    /\ NormIdle
    /\ ClampIdle
    /\ WriteIdle
    /\ CacheIdle
    /\ JobsIdle
    /\ HexIdle
    /\ AssIdle
    /\ ParseIdle
    /\ FgIdle
    /\ QueueIdle
    /\ TableIdle
    /\ BrollIdle
restSeg == <<jsonVars, normVars, clampVars, writeVars, cacheVars,
               jobVars, hexVars, assVars, parseVars, fgVars, queueVars,
               tableVars, brollVars>>
NextSeg == Segment /\ UNCHANGED restSeg
SpecSeg == InitSeg /\ [][NextSeg]_vars

InitJson ==
    /\ JsonInit
    /\ SegIdle
    /\ NormIdle
    /\ ClampIdle
    /\ WriteIdle
    /\ CacheIdle
    /\ JobsIdle
    /\ HexIdle
    /\ AssIdle
    /\ ParseIdle
    /\ FgIdle
    /\ QueueIdle
    /\ TableIdle
    /\ BrollIdle
restJson == <<segVars, normVars, clampVars, writeVars, cacheVars,
                jobVars, hexVars, assVars, parseVars, fgVars, queueVars,
                tableVars, brollVars>>
NextJson == ExtractJson /\ UNCHANGED restJson
SpecJson == InitJson /\ [][NextJson]_vars

InitNorm ==
    /\ NormInit
    /\ SegIdle
    /\ JsonIdle
    /\ ClampIdle
    /\ WriteIdle
    /\ CacheIdle
    /\ JobsIdle
    /\ HexIdle
    /\ AssIdle
    /\ ParseIdle
    /\ FgIdle
    /\ QueueIdle
    /\ TableIdle
    /\ BrollIdle
restNorm == <<segVars, jsonVars, clampVars, writeVars, cacheVars,
                jobVars, hexVars, assVars, parseVars, fgVars, queueVars,
                tableVars, brollVars>>
NextNorm ==
    \/ NormalizeEnter /\ UNCHANGED restNorm
    \/ Launch /\ UNCHANGED restNorm
    \/ ProbeExit /\ UNCHANGED restNorm
    \/ StereoExit /\ UNCHANGED restNorm
    \/ MeasureLeftExit /\ UNCHANGED restNorm
    \/ MeasureRightExit /\ UNCHANGED restNorm
    \/ GainExit /\ UNCHANGED restNorm
    \/ Pass1Exit /\ UNCHANGED restNorm
    \/ Pass2Exit /\ UNCHANGED restNorm
SpecNorm == InitNorm /\ [][NextNorm]_vars

InitClamp ==
    /\ ClampInit
    /\ SegIdle
    /\ JsonIdle
    /\ NormIdle
    /\ WriteIdle
    /\ CacheIdle
    /\ JobsIdle
    /\ HexIdle
    /\ AssIdle
    /\ ParseIdle
    /\ FgIdle
    /\ QueueIdle
    /\ TableIdle
    /\ BrollIdle
restClamp == <<segVars, jsonVars, normVars, writeVars, cacheVars,
                 jobVars, hexVars, assVars, parseVars, fgVars, queueVars,
                 tableVars, brollVars>>
NextClamp == Clamp /\ UNCHANGED restClamp
SpecClamp == InitClamp /\ [][NextClamp]_vars

InitWrite ==
    /\ WriteInit
    /\ SegIdle
    /\ JsonIdle
    /\ NormIdle
    /\ ClampIdle
    /\ CacheIdle
    /\ JobsIdle
    /\ HexIdle
    /\ AssIdle
    /\ ParseIdle
    /\ FgIdle
    /\ QueueIdle
    /\ TableIdle
    /\ BrollIdle
restWrite == <<segVars, jsonVars, normVars, clampVars, cacheVars,
                 jobVars, hexVars, assVars, parseVars, fgVars, queueVars,
                 tableVars, brollVars>>
NextWrite == Write /\ UNCHANGED restWrite
SpecWrite == InitWrite /\ [][NextWrite]_vars

InitCache ==
    /\ CacheInit
    /\ SegIdle
    /\ JsonIdle
    /\ NormIdle
    /\ ClampIdle
    /\ WriteIdle
    /\ JobsIdle
    /\ HexIdle
    /\ AssIdle
    /\ ParseIdle
    /\ FgIdle
    /\ QueueIdle
    /\ TableIdle
    /\ BrollIdle
restCache == <<segVars, jsonVars, normVars, clampVars, writeVars,
                 jobVars, hexVars, assVars, parseVars, fgVars, queueVars,
                 tableVars, brollVars>>
NextCache ==
    \/ GetModelCall /\ UNCHANGED restCache
    \/ AcquireLock /\ UNCHANGED restCache
    \/ GetModelRecheck /\ UNCHANGED restCache
    \/ ModelLoaded /\ UNCHANGED restCache
    \/ ModelLoadFailed /\ UNCHANGED restCache
    \/ GetModelReturn /\ UNCHANGED restCache
    \/ CloseCall /\ UNCHANGED restCache
    \/ CloseAllCall /\ UNCHANGED restCache
    \/ TranscribeCall /\ UNCHANGED restCache
    \/ TranscribeReturned /\ UNCHANGED restCache
SpecCache == InitCache /\ [][NextCache]_vars

InitJobs ==
    /\ JobsInit
    /\ SegIdle
    /\ JsonIdle
    /\ NormIdle
    /\ ClampIdle
    /\ WriteIdle
    /\ CacheIdle
    /\ HexIdle
    /\ AssIdle
    /\ ParseIdle
    /\ FgIdle
    /\ QueueIdle
    /\ TableIdle
    /\ BrollIdle
restJobs == <<segVars, jsonVars, normVars, clampVars, writeVars,
                cacheVars, hexVars, assVars, parseVars, fgVars, queueVars,
                tableVars, brollVars>>
NextJobs ==
    \/ RenderRequest /\ UNCHANGED restJobs
    \/ WorkerRuns /\ UNCHANGED restJobs
    \/ AudioPrepared /\ UNCHANGED restJobs
    \/ ConfigBuilt /\ UNCHANGED restJobs
    \/ ConfigFromDict /\ UNCHANGED restJobs
    \/ AppRender /\ UNCHANGED restJobs
    \/ RendererCreated /\ UNCHANGED restJobs
    \/ IntermediateWritten /\ UNCHANGED restJobs
    \/ RenderReturned /\ UNCHANGED restJobs
SpecJobs == InitJobs /\ [][NextJobs]_vars

InitHex ==
    /\ HexInit
    /\ SegIdle
    /\ JsonIdle
    /\ NormIdle
    /\ ClampIdle
    /\ WriteIdle
    /\ CacheIdle
    /\ JobsIdle
    /\ AssIdle
    /\ ParseIdle
    /\ FgIdle
    /\ QueueIdle
    /\ TableIdle
    /\ BrollIdle
restHex == <<segVars, jsonVars, normVars, clampVars, writeVars,
               cacheVars, jobVars, assVars, parseVars, fgVars, queueVars,
               tableVars, brollVars>>
NextHex ==
    \/ Convert /\ UNCHANGED restHex
    \/ ConvertBack /\ UNCHANGED restHex
SpecHex == InitHex /\ [][NextHex]_vars

InitAss ==
    /\ AssInit
    /\ SegIdle
    /\ JsonIdle
    /\ NormIdle
    /\ ClampIdle
    /\ WriteIdle
    /\ CacheIdle
    /\ JobsIdle
    /\ HexIdle
    /\ ParseIdle
    /\ FgIdle
    /\ QueueIdle
    /\ TableIdle
    /\ BrollIdle
restAss == <<segVars, jsonVars, normVars, clampVars, writeVars,
               cacheVars, jobVars, hexVars, parseVars, fgVars, queueVars,
               tableVars, brollVars>>
NextAss == Sanitize /\ UNCHANGED restAss
SpecAss == InitAss /\ [][NextAss]_vars

InitParse ==
    /\ ParseInit
    /\ SegIdle
    /\ JsonIdle
    /\ NormIdle
    /\ ClampIdle
    /\ WriteIdle
    /\ CacheIdle
    /\ JobsIdle
    /\ HexIdle
    /\ AssIdle
    /\ FgIdle
    /\ QueueIdle
    /\ TableIdle
    /\ BrollIdle
restParse == <<segVars, jsonVars, normVars, clampVars, writeVars,
                 cacheVars, jobVars, hexVars, assVars, fgVars, queueVars,
                 tableVars, brollVars>>
NextParse == ParseWords /\ UNCHANGED restParse
SpecParse == InitParse /\ [][NextParse]_vars

InitFg ==
    /\ FgInit
    /\ SegIdle
    /\ JsonIdle
    /\ NormIdle
    /\ ClampIdle
    /\ WriteIdle
    /\ CacheIdle
    /\ JobsIdle
    /\ HexIdle
    /\ AssIdle
    /\ ParseIdle
    /\ QueueIdle
    /\ TableIdle
    /\ BrollIdle
restFg == <<segVars, jsonVars, normVars, clampVars, writeVars, cacheVars,
              jobVars, hexVars, assVars, parseVars, queueVars, tableVars,
              brollVars>>
NextFg ==
    \/ BuilderAdd /\ UNCHANGED restFg
    \/ BuilderFinalize /\ UNCHANGED restFg
    \/ BuilderReplay /\ UNCHANGED restFg
SpecFg == InitFg /\ [][NextFg]_vars

InitQueue ==
    /\ QueueInit
    /\ SegIdle
    /\ JsonIdle
    /\ NormIdle
    /\ ClampIdle
    /\ WriteIdle
    /\ CacheIdle
    /\ JobsIdle
    /\ HexIdle
    /\ AssIdle
    /\ ParseIdle
    /\ FgIdle
    /\ TableIdle
    /\ BrollIdle
restQueue == <<segVars, jsonVars, normVars, clampVars, writeVars,
                 cacheVars, jobVars, hexVars, assVars, parseVars, fgVars,
                 tableVars, brollVars>>
NextQueue ==
    \/ EnqueueCalled /\ UNCHANGED restQueue
    \/ EnqueuePrepared /\ UNCHANGED restQueue
    \/ EnqueueReturned /\ UNCHANGED restQueue
    \/ JobStarted /\ UNCHANGED restQueue
    \/ JobFfmpegReady /\ UNCHANGED restQueue
    \/ JobComposed /\ UNCHANGED restQueue
    \/ JobProbed /\ UNCHANGED restQueue
    \/ JobSucceeded /\ UNCHANGED restQueue
    \/ JobFailed /\ UNCHANGED restQueue
SpecQueue == InitQueue /\ [][NextQueue]_vars

InitTable ==
    /\ TableInit
    /\ SegIdle
    /\ JsonIdle
    /\ NormIdle
    /\ ClampIdle
    /\ WriteIdle
    /\ CacheIdle
    /\ JobsIdle
    /\ HexIdle
    /\ AssIdle
    /\ ParseIdle
    /\ FgIdle
    /\ QueueIdle
    /\ BrollIdle
restTable == <<segVars, jsonVars, normVars, clampVars, writeVars,
                 cacheVars, jobVars, hexVars, assVars, parseVars, fgVars,
                 queueVars, brollVars>>
NextTable ==
    \/ RenderPosted /\ UNCHANGED restTable
    \/ WorkerSetsRunning /\ UNCHANGED restTable
    \/ WorkerSetsProgress /\ UNCHANGED restTable
    \/ WorkerSetsDone /\ UNCHANGED restTable
    \/ WorkerSetsError /\ UNCHANGED restTable
    \/ WorkerCleansUp /\ UNCHANGED restTable
    \/ StatusPolled /\ UNCHANGED restTable
SpecTable == InitTable /\ [][NextTable]_vars

InitBroll ==
    /\ BrollInit
    /\ SegIdle
    /\ JsonIdle
    /\ NormIdle
    /\ ClampIdle
    /\ WriteIdle
    /\ CacheIdle
    /\ JobsIdle
    /\ HexIdle
    /\ AssIdle
    /\ ParseIdle
    /\ FgIdle
    /\ QueueIdle
    /\ TableIdle
restBroll == <<segVars, jsonVars, normVars, clampVars, writeVars,
                 cacheVars, jobVars, hexVars, assVars, parseVars, fgVars,
                 queueVars, tableVars>>
NextBroll ==
    \/ BrollCall /\ UNCHANGED restBroll
    \/ BrollIterate /\ UNCHANGED restBroll
    \/ BrollReturn /\ UNCHANGED restBroll
SpecBroll == InitBroll /\ [][NextBroll]_vars

(***************************************************************************)
(* Claims about CaptionSegmenter                                           *)
(***************************************************************************)
RECURSIVE Flatten(_)
Flatten(cs) == IF cs = << >> THEN << >> ELSE Head(cs) \o Flatten(Tail(cs))

\* the number of words in the chunks before chunk k
RECURSIVE WordsBefore(_, _)
WordsBefore(cs, k) == IF k <= 1 THEN 0 ELSE WordsBefore(cs, k - 1) + Len(cs[k - 1])

EndsWithTerminal(w) ==
    \E n \in 1..Len(w.text) : n = Len(w.text) /\ w.text[n] \in {".", "?", "!"}

\* the span of words i..p of ws reaches m milliseconds (exact, no rounding)
SpanReaches(ws, i, p, m) == ws[p].end - ws[i].start >= m * TicksPerMs

\* C1: segment returns chunks whose words, concatenated in chunk order, are
\* exactly the input word sequence, and every chunk holds at least one word.
C1_ChunksPartitionWords ==
    segPc = "done" =>
        /\ Flatten(chunks) = words
        /\ \A k \in 1..Len(chunks) : Len(chunks[k]) >= 1

C1_Witness ==
    /\ segPc = "done"
    /\ Len(words) = MaxLen
    /\ Len(chunks) >= 2
    /\ config.max_words_per_caption >= 2

\* C2: no chunk has more than max_words_per_caption words, and no proper
\* prefix of a chunk has reached the word limit or the time limit.
C2_ChunkLimits ==
    segPc = "done" =>
        \A k \in 1..Len(chunks) :
            /\ Len(chunks[k]) <= config.max_words_per_caption
            /\ \A p \in 1..(Len(chunks[k]) - 1) :
                  /\ p < config.max_words_per_caption
                  /\ ~SpanReaches(chunks[k], 1, p, config.max_caption_ms)

\* a chunk of two words exists, and another chunk was closed by the time limit
\* with fewer words than the word limit
C2_Witness ==
    /\ segPc = "done"
    /\ \E k \in 1..Len(chunks) : Len(chunks[k]) >= 2
    /\ \E k \in 1..Len(chunks) :
          /\ Len(chunks[k]) < config.max_words_per_caption
          /\ SpanReaches(chunks[k], 1, Len(chunks[k]), config.max_caption_ms)

\* words i..j of ws are a sentence group: a maximal run closed by a
\* sentence-terminal word or by the end of the input
IsSentence(ws, i, j) ==
    /\ 1 <= i /\ i <= j /\ j <= Len(ws)
    /\ (i = 1 \/ EndsWithTerminal(ws[i - 1]))
    /\ (j = Len(ws) \/ EndsWithTerminal(ws[j]))
    /\ \A p \in i..(j - 1) : ~EndsWithTerminal(ws[p])

\* words i..j of the input are exactly one chunk of the output
IsOneChunk(i, j) ==
    \E k \in 1..Len(chunks) :
        /\ WordsBefore(chunks, k) + 1 = i
        /\ WordsBefore(chunks, k) + Len(chunks[k]) = j

\* a sentence-terminal word is the last word of its chunk, and the words
\* after the last terminal word are emitted
NoChunkCrossesSentence ==
    /\ \A k \in 1..Len(chunks) :
          \A p \in 1..(Len(chunks[k]) - 1) : ~EndsWithTerminal(chunks[k][p])
    /\ Len(Flatten(chunks)) = Len(words)
    /\ \A n \in 1..Len(words) : Flatten(chunks)[n] = words[n]

SortedByStart(ws) ==
    \A a, b \in 1..Len(ws) : a < b => ws[a].start <= ws[b].start

\* C3 as stated: chunks never cross a sentence boundary, trailing words are
\* emitted, and a sentence that fits both limits (fewer words than the word
\* limit, a span below the time limit) is exactly one chunk.
C3_Original_FittingSentenceIsOneChunk ==
    (segPc = "done" /\ SortedByStart(words)) =>
        /\ NoChunkCrossesSentence
        /\ \A i, j \in 1..Len(words) :
              ( /\ IsSentence(words, i, j)
                /\ j - i + 1 < config.max_words_per_caption
                /\ ~SpanReaches(words, i, j, config.max_caption_ms) )
              => IsOneChunk(i, j)

\* C3 as amended: chunks never cross a sentence boundary, trailing words are
\* emitted, and a sentence none of whose proper prefixes reaches the word
\* limit or (in whole milliseconds) the time limit is exactly one chunk.
C3_SentenceBoundaries ==
    segPc = "done" =>
        /\ NoChunkCrossesSentence
        /\ \A i, j \in 1..Len(words) :
              ( /\ IsSentence(words, i, j)
                /\ \A p \in i..(j - 1) :
                      /\ p - i + 1 < config.max_words_per_caption
                      /\ TruncDiv(words[p].end - words[i].start, TicksPerMs)
                            < config.max_caption_ms )
              => IsOneChunk(i, j)

\* a two-word sentence closed by a terminal word came out as one chunk, under
\* limits that a longer or slower sentence would have hit
C3_Witness ==
    /\ segPc = "done"
    /\ Len(words) = 2
    /\ ~EndsWithTerminal(words[1])
    /\ EndsWithTerminal(words[2])
    /\ config.max_words_per_caption = 2
    /\ config.max_caption_ms = 1
    /\ Len(chunks) = 1

(***************************************************************************)
(* Claims about _extract_last_json                                         *)
(***************************************************************************)
\* tokens i..j of s are a well-formed JSON object
WellFormedAt(s, i, j) == i < j /\ JsonLoadsOk(SubSeq(s, i, j))

HasWellFormedBlock(s) == \E i, j \in 1..Len(s) : WellFormedAt(s, i, j)

\* the last well-formed block of s: the one that ends last, and of those the
\* outermost
LastWellFormedBlock(s) ==
    LET e == CHOOSE j \in 1..Len(s) :
                 /\ \E i \in 1..Len(s) : WellFormedAt(s, i, j)
                 /\ \A i2, j2 \in 1..Len(s) : WellFormedAt(s, i2, j2) => j2 <= j
        b == CHOOSE i \in 1..Len(s) :
                 /\ WellFormedAt(s, i, e)
                 /\ \A i2 \in 1..Len(s) : WellFormedAt(s, i2, e) => i <= i2
    IN SubSeq(s, b, e)

\* C9: the report returned for a stream is the last well-formed JSON block of
\* the stream, whatever precedes or follows it, and it is empty only when the
\* stream holds no well-formed block.
C9_LastWellFormedBlockReturned ==
    jsonPc = "done" =>
        IF HasWellFormedBlock(stderr_text)
        THEN jsonResult = JsonLoads(LastWellFormedBlock(stderr_text))
        ELSE jsonResult = EmptyDict

(***************************************************************************)
(* Claims about AudioProcessor.normalize                                   *)
(***************************************************************************)
HasStage(st) == \E k \in 1..Len(cmds) : cmds[k].stage = st

\* the loudness a report states for its stream: input_i, or measured_I
Reports(stats, k1, k2) == k1 \in DOMAIN stats \/ k2 \in DOMAIN stats
Reported(stats, k1, k2) == IF k1 \in DOMAIN stats THEN stats[k1] ELSE stats[k2]

\* clamp(t - m, -24, 24), and 0 when the difference is not finite
ExpectedGain(t, m) ==
    IF t.kind = "fin" /\ m.kind = "fin"
    THEN (IF t.n - m.n > 24 THEN Fin(24)
          ELSE IF t.n - m.n < -24 THEN Fin(-24)
          ELSE Fin(t.n - m.n))
    ELSE Fin(0)

\* C4: the gain applied to a channel is clamp(target_I - measured_I, -24, 24)
\* of that channel's own measurement, 0 dB when the difference is not finite,
\* and so always within [-24, 24].
C4_PerChannelGain ==
    volume # << >> =>
        LET l == _extract_last_json(left_stderr)
            r == _extract_last_json(right_stderr)
        IN /\ volume[1].l.kind = "fin" /\ volume[1].l.n \in -24..24
           /\ volume[1].r.kind = "fin" /\ volume[1].r.n \in -24..24
           /\ Reports(l, "input_i", "measured_I") =>
                 volume[1].l = ExpectedGain(targets.I, Reported(l, "input_i", "measured_I"))
           /\ Reports(r, "input_i", "measured_I") =>
                 volume[1].r = ExpectedGain(targets.I, Reported(r, "input_i", "measured_I"))

\* left -10 LUFS, right -20 LUFS, target -16: gains -6 dB and +4 dB
C4_Witness ==
    /\ HasStage("gain")
    /\ targets.I = Fin(-16)
    /\ _extract_last_json(left_stderr) = [k \in {"input_i"} |-> Fin(-10)]
    /\ _extract_last_json(right_stderr) = [k \in {"input_i"} |-> Fin(-20)]
    /\ volume = << [l |-> Fin(-6), r |-> Fin(4)] >>

\* C5: the commands are issued in the fixed order (channel probe and) stereo
\* enforcement, left measurement, right measurement, gain, pass 1, pass 2,
\* never two at once; measurement and gain read the stereo file, pass 1 and
\* pass 2 the balanced file, each written by an earlier command; after a
\* non-zero exit of stereo enforcement, gain or pass 2 nothing more is started
\* and no path is returned.
C5_SequentialStages ==
    /\ Len(cmds) <= Len(Stages)
    /\ \A k \in 1..Len(cmds) : cmds[k].stage = Stages[k]
    /\ Cardinality(running) <= 1
    /\ \A k \in 1..Len(cmds) :
          /\ cmds[k].stage \in {"measure_l", "measure_r", "gain"} =>
                /\ cmds[k].input = "audio_stereo.wav"
                /\ \E j \in 1..(k - 1) : cmds[j].stage = "stereo" /\ cmds[j].output = cmds[k].input
          /\ cmds[k].stage \in {"pass1", "pass2"} =>
                /\ cmds[k].input = "audio_balanced.wav"
                /\ \E j \in 1..(k - 1) : cmds[j].stage = "gain" /\ cmds[j].output = cmds[k].input
          /\ (cmds[k].stage \in {"stereo", "gain", "pass2"} /\ cmds[k].rc > 0) =>
                /\ k = Len(cmds)
                /\ nresult.kind \notin {"none", "returned"}
    /\ nresult.kind = "returned" =>
          /\ Len(cmds) = Len(Stages)
          /\ \A k \in 1..Len(cmds) : cmds[k].stage \in {"stereo", "gain", "pass2"} => cmds[k].rc = 0

\* the gain command exited non-zero after all earlier stages ran
C5_Witness ==
    /\ Len(cmds) = 5
    /\ cmds[5].stage = "gain"
    /\ cmds[5].rc = 1
    /\ npc = "raised"

\* pass 1 has returned
Pass1Returned == \E k \in 1..Len(cmds) : cmds[k].stage = "pass1" /\ cmds[k].rc >= 0

\* C6: when pass 1 yields no parseable report, normalization fails with an
\* error, pass 2 is never invoked and no output path is returned.
C6_Pass1ReportRequired ==
    (Pass1Returned /\ ~HasWellFormedBlock(probe_stderr)) =>
        /\ nresult.kind = "RuntimeError"
        /\ npc = "raised"
        /\ ~HasStage("pass2")
        /\ pass2_args = << >>

C6_Witness ==
    /\ Pass1Returned
    /\ probe_stderr = Report(<<Junk>>)
    /\ nresult = Raise("RuntimeError", "pass1")

\* a channel measurement has returned
MeasureReturned(st) == \E k \in 1..Len(cmds) : cmds[k].stage = st /\ cmds[k].rc >= 0

\* C7: whenever a loudness probe (left or right measurement, or pass 1)
\* produces no parseable report, normalize fails and no later stage runs; no
\* guessed loudness stands in for a missing report.
C7_EveryProbeReportRequired ==
    /\ (MeasureReturned("measure_l") /\ ~HasWellFormedBlock(left_stderr)) =>
          ~HasStage("measure_r") /\ ~HasStage("gain")
    /\ (MeasureReturned("measure_r") /\ ~HasWellFormedBlock(right_stderr)) =>
          npc = "raised" /\ ~HasStage("gain")
    /\ (Pass1Returned /\ ~HasWellFormedBlock(probe_stderr)) =>
          npc = "raised" /\ ~HasStage("pass2")

\* C8: whenever pass 2 is invoked, its measured_I, measured_LRA, measured_TP
\* and measured_thresh are the values pass 1 reported, its I, LRA and TP are
\* the targets, and no target or default stands in for a measured value.
C8_Pass2UsesMeasuredStatistics ==
    HasStage("pass2") =>
        LET stats == JsonLoads(LastWellFormedBlock(probe_stderr))
            a == pass2_args[1]
        IN /\ HasWellFormedBlock(probe_stderr)
           /\ a.I = targets.I /\ a.LRA = targets.LRA /\ a.TP = targets.TP
           /\ Reports(stats, "input_i", "measured_I")
           /\ a.measured_I = Reported(stats, "input_i", "measured_I")
           /\ Reports(stats, "input_lra", "measured_LRA")
           /\ a.measured_LRA = Reported(stats, "input_lra", "measured_LRA")
           /\ Reports(stats, "input_tp", "measured_TP")
           /\ a.measured_TP = Reported(stats, "input_tp", "measured_TP")
           /\ Reports(stats, "input_thresh", "measured_thresh")
           /\ a.measured_thresh = Reported(stats, "input_thresh", "measured_thresh")

TargetUsable(x) == x.kind \notin {"absent", "str"}

\* C10: with the source file missing normalize raises a not-found error, with
\* a target field absent or non-numeric a type error, in both cases before any
\* external process is started or any intermediate file is written.
C10_ValidationBeforeAnyProcess ==
    /\ (npc # "call" /\ source = "missing") =>
          /\ nresult.kind = "FileNotFoundError"
          /\ cmds = << >> /\ running = {} /\ files = {}
    /\ (npc # "call" /\ source = "exists"
          /\ ~(TargetUsable(ncfg.target_lufs) /\ TargetUsable(ncfg.target_lra)
               /\ TargetUsable(ncfg.target_tp))) =>
          /\ nresult.kind = "TypeError"
          /\ cmds = << >> /\ running = {} /\ files = {}

C10_Witness ==
    /\ npc = "raised"
    /\ source = "exists"
    /\ ncfg.target_lufs = Fin(-16)
    /\ ncfg.target_lra = Absent
    /\ nresult = Raise("TypeError", "validate")

(***************************************************************************)
(* Claims about TimeFormatter.clamp                                        *)
(***************************************************************************)
\* C11: for every start, end and offset, negative, reversed and non-finite
\* ones included, clamp returns (s, e) with both finite, s >= 0 and
\* e >= s + 0.001
C11_ClampedWindow ==
    clampPc = "done" =>
        LET s == clampRet[1]
            e == clampRet[2]
        IN  /\ ~IsNonFinite(s)
            /\ ~IsNonFinite(e)
            /\ s.n >= 0
            /\ e.n >= s.n + MinDuration

(***************************************************************************)
(* Claims about SubtitleWriter.write                                       *)
(***************************************************************************)
\* the chunks the segmenter returns for the transcript write was given
WrittenChunks == segment(_parse_words(transcript), from_cfg(wcfg))

\* the same time of day, whatever the separator of the fraction
SameInstant(a, b) == [a EXCEPT !.sep = "."] = [b EXCEPT !.sep = "."]

\* C12: for a transcript with at least one valid word, write emits one ASS
\* Dialogue row, one SRT block and one VTT cue per chunk of the segmenter, in
\* chunk order, the SRT blocks numbered 1..k; the three entries of a chunk
\* are formatted from the same clamped interval (first word's start and last
\* word's end, plus the offset), so SRT and VTT carry the same boundaries
C12_OneEntryPerChunk ==
    (wPc = "returned" /\ _parse_words(transcript) # << >>) =>
        LET chs == WrittenChunks
            off == OffsetOf(ts_off)
        IN  /\ Len(ass_file.dialogues) = Len(chs)
            /\ Len(srt_file) = Len(chs)
            /\ Len(vtt_file.cues) = Len(chs)
            /\ \A i \in 1..Len(chs) :
                LET first == chs[i][1]
                    last  == chs[i][Len(chs[i])]
                    iv    == clamp(Fin(first.start), Fin(last.end), off)
                    row   == ass_file.dialogues[i]
                    block == srt_file[i]
                    cue   == vtt_file.cues[i]
                IN  /\ block.index = i
                    /\ row.start = to_ass(iv[1]) /\ row.end = to_ass(iv[2])
                    /\ block.start = to_srt(iv[1]) /\ block.end = to_srt(iv[2])
                    /\ cue.start = to_vtt(iv[1]) /\ cue.end = to_vtt(iv[2])
                    /\ SameInstant(block.start, cue.start)
                    /\ SameInstant(block.end, cue.end)
                    /\ row.text = RowText(chs[i])
                    /\ block.text = RowText(chs[i])
                    /\ cue.text = RowText(chs[i])

\* write returned three files of two entries each, the chunks shifted by a
\* non-zero offset and starting at different milliseconds
C12_Witness ==
    /\ wPc = "returned"
    /\ Len(WrittenChunks) = 2
    /\ Len(srt_file) = 2 /\ Len(vtt_file.cues) = 2 /\ Len(ass_file.dialogues) = 2
    /\ srt_file[2].index = 2
    /\ ts_off = Fin(1)
    /\ srt_file[1].start # srt_file[2].start

\* how many entries of s satisfy Test
CountWhere(s, Test(_)) == Len(SelectSeq(s, Test))

\* both times of the entry are present, numeric and finite
IsWellTimed(data) == data.s.kind = "fin" /\ data.e.kind = "fin"

\* the word texts a file shows, over all its rows
ShownTexts(rows) == Flatten([i \in 1..Len(rows) |-> rows[i].text])

\* the rows show the texts of the well-timed entries, each as many times as
\* the transcript holds it, and nothing else
ShowsExactlyWellTimed(rows) ==
    /\ Len(ShownTexts(rows)) = CountWhere(transcript, IsWellTimed)
    /\ \A t \in RawTexts :
        LET IsT(x) == x = t
            HasT(data) == IsWellTimed(data) /\ data.raw = t
        IN  CountWhere(ShownTexts(rows), IsT) = CountWhere(transcript, HasT)

\* C13: an entry whose start or end is missing, non-numeric or non-finite is
\* dropped without failing the call and shows in no file, every other entry
\* is kept; with no entry or no valid word left the files are header-only:
\* an empty SRT, a VTT of the WEBVTT header, an ASS header without Dialogue
C13_MalformedEntriesDropped ==
    wPc = "returned" =>
        /\ ShowsExactlyWellTimed(srt_file)
        /\ ShowsExactlyWellTimed(vtt_file.cues)
        /\ ShowsExactlyWellTimed(ass_file.dialogues)
        /\ CountWhere(transcript, IsWellTimed) = 0 =>
            /\ srt_file = << >>
            /\ vtt_file = [header |-> "WEBVTT", cues |-> << >>]
            /\ ass_file.sections # << >>
            /\ ass_file.dialogues = << >>

\* write returned for a transcript of one malformed and one reversed entry:
\* the files show the second and not the first
C13_Witness ==
    /\ wPc = "returned"
    /\ Len(transcript) = 2
    /\ transcript[1] = Entry(NaN, Fin(1), <<"a">>)
    /\ transcript[2] = Entry(Fin(3), Fin(1), <<"b", ".">>)
    /\ Len(srt_file) = 1
    /\ srt_file[1].text = << <<"b", ".">> >>

(***************************************************************************)
(* Claims about the ASR model cache                                        *)
(***************************************************************************)
\* the thread's request returned a model and its key has not left the cache
\* since the request began
Undisturbed(t) == threads[t].pc = "done" /\ threads[t].clean

\* C14: when threads concurrently request the model of one cache key that is
\* absent, and the key is neither evicted nor closed in between, the model
\* is loaded once and every requester receives that one instance
C14_LoadedOnceAndShared ==
    /\ \A k \in CacheKeys : hist.epochLoads[k] <= 1
    /\ \A t \in Threads :
        Undisturbed(t) =>
            /\ threads[t].model # NoModel
            /\ threads[t].model = Lookup(store, threads[t].key)
            /\ hist.epochLoads[threads[t].key] = 1
    /\ \A t, u \in Threads :
        (Undisturbed(t) /\ Undisturbed(u) /\ threads[t].key = threads[u].key)
            => threads[t].model = threads[u].model

\* two threads both missed the same key at their first lookup and both have
\* returned, after a single load
C14_Witness ==
    /\ Undisturbed(1) /\ Undisturbed(2)
    /\ threads[1].missed /\ threads[2].missed
    /\ threads[1].key = threads[2].key
    /\ loads = 1
    /\ threads[1].model = 1 /\ threads[2].model = 1

\* C15: after any interleaving of get, put, pop and clear the cache holds at
\* most capacity models (capacity >= 1), and the entry a put evicts on
\* overflow is the least recently used one, a hit of get and a put both
\* counting as a use
C15_CapacityAndLRU ==
    /\ capacity >= 1
    /\ Len(store) <= capacity
    /\ Cardinality(StoredKeys(store)) = Len(store)
    /\ [i \in 1..Len(store) |-> store[i].key] = hist.recency
    /\ hist.evicted # << >> => hist.evicted[1].key = hist.evicted[1].lru

\* a put evicted a key that had been stored before a key which a later get
\* had hit: the older entry by insertion, not by use, stayed
C15_Witness ==
    /\ capacity = 2
    /\ Len(store) = 2
    /\ hist.evicted # << >>
    /\ hist.evicted[1].key = "base"
    /\ store[1].key = "tiny" /\ store[1].model = 1
    /\ store[2].key = "small" /\ store[2].model = 3
    /\ released = [m \in 1..MaxLoads |-> IF m = 2 THEN 1 ELSE 0]

\* C16: a model that leaves the cache, by eviction, by close or by
\* close_all, has been released exactly once, in the step that removed it,
\* and no model still in the cache has been released
C16_ReleasedOnceOnRemoval ==
    \A m \in 1..MaxLoads :
        /\ m \in StoredModels(store) => released[m] = 0
        /\ (m \in hist.everStored /\ m \notin StoredModels(store))
                => released[m] = 1
        /\ m \notin hist.everStored => released[m] = 0

\* two models have left a cache of capacity 1 and a third is still in it
C16_Witness ==
    /\ hist.everStored = { 1, 2, 3 }
    /\ StoredModels(store) = { 3 }
    /\ released[1] = 1 /\ released[2] = 1 /\ released[3] = 0
    /\ capacity = 1
    /\ hist.evicted = << >>

(***************************************************************************)
(* Claims about render jobs                                                *)
(***************************************************************************)

\* C17: each render job works in a temp directory of its own for the
\* fixed-name intermediate files: two jobs that are rendering at the same
\* time have different temp directories, and no job writes over a file of
\* a job that is still rendering.
C17_OwnTempDirectory ==
    /\ \A i \in JobIds, j \in JobIds :
          (i # j /\ Rendering(i) /\ Rendering(j)) => jobs[i].tmp # jobs[j].tmp
    /\ clobbers = {}

\* C18: a job that ended in a validation error started no external process
\* before it, the concatenation of its audio segments included.
C18_NoProcessBeforeValidationError ==
    \A j \in JobIds : jobs[j].err = "validation" => jobs[j].procs = {}

InRange(x, lo, hi) == x.kind = "fin" /\ lo <= x.n /\ x.n <= hi

\* the configuration of job j has its loudness targets in range and a
\* positive repeat interval
ValidTargets(j) ==
    LET c == BuildConfig(jobs[j].req)
    IN  /\ InRange(c.target_lufs, -360, -60)
        /\ InRange(c.target_lra, 10, 200)
        /\ InRange(c.target_tp, -60, -1)
        /\ c.repeat_s.kind = "fin" /\ c.repeat_s.n > 0

\* job j has passed validation, or has gone on to normalization and rendering
Accepted(j) == jobs[j].pc \in { "validated", "render", "done" }

\* C19: a configuration passes validation only with target_lufs in
\* [-36, -6], target_lra in [1, 20], target_tp in [-6, -0.1] and
\* cta.repeat_s > 0; a job whose configuration is outside these ranges or
\* has repeat_s = 0 never passes, never starts a process of normalization or
\* rendering and writes no intermediate file, on any call path.
C19_OnlyValidConfigsRendered ==
    \A j \in JobIds :
        /\ Accepted(j) => ValidTargets(j)
        /\ (jobs[j].pc # "idle" /\ ~ValidTargets(j)) =>
              /\ jobs[j].procs \subseteq { "ffmpeg concat" }
              /\ \A f \in tmpfs : f.owner # j

\* a configuration from from_dict with target_lufs = -36, target_tp = -0.1
\* and repeat_s = 0.01, each on the edge of its range, has passed validation
\* and its first intermediate file is written
C19_Witness ==
    /\ jobs[1].pc = "render" /\ jobs[1].step > 1
    /\ jobs[1].req.path = "from_dict"
    /\ jobs[1].req.target_tp = Fin(-1)
    /\ jobs[1].req.target_lufs = Fin(-360)
    /\ jobs[1].req.repeat_s = Fin(1)

(***************************************************************************)
(* Claims about ColorConverter                                             *)
(***************************************************************************)

\* a valid colour: six hex digits, with or without a leading "#"
ValidColour(x) == x.isStr /\ HexPatternMatches(x.chars)

\* the six digits of a valid colour
DigitsOf(x) == IF Head(x.chars) = "#" THEN Tail(x.chars) ELSE x.chars

\* the position the i-th character of the result is taken from
PairReversed(i) == IF i <= 2 THEN i + 4 ELSE IF i <= 4 THEN i ELSE i - 4

\* C20 as stated: for every valid 6-digit hex colour, hex_to_bgr returns the
\* three byte pairs in reversed order, and converting the result again
\* restores the original six hex digits.
C20_ReversesAndRoundTrips ==
    (hexPc = "back" /\ ValidColour(hexIn)) =>
        /\ Len(hexOut) = 6
        /\ \A i \in 1..6 : hexOut[i] = DigitsOf(hexIn)[PairReversed(i)]
        /\ hexBack = DigitsOf(hexIn)

\* C20 amended: for every valid 6-digit hex colour, hex_to_bgr returns the
\* three byte pairs in reversed order with the letters in upper case, and
\* converting the result again restores the original six digits in upper
\* case (the original string only when it had no lower-case letter).
C20_ReversesAndRoundTripsUpper ==
    /\ (hexPc # "in" /\ ValidColour(hexIn)) =>
          /\ Len(hexOut) = 6
          /\ \A i \in 1..6 : hexOut[i] = UpperChar(DigitsOf(hexIn)[PairReversed(i)])
    /\ (hexPc = "back" /\ ValidColour(hexIn)) =>
          /\ Len(hexBack) = 6
          /\ \A i \in 1..6 : hexBack[i] = UpperChar(DigitsOf(hexIn)[i])
          /\ (\A i \in 1..6 : DigitsOf(hexIn)[i] \in UpperHex) =>
                hexBack = DigitsOf(hexIn)

\* "#Ff5733" was converted to "3357FF" and back to "FF5733"
C20_Witness ==
    /\ hexPc = "back"
    /\ hexIn = Str(<< "#", "F", "f", "5", "7", "3", "3" >>)
    /\ hexOut = << "3", "3", "5", "7", "F", "F" >>
    /\ hexBack = << "F", "F", "5", "7", "3", "3" >>

(***************************************************************************)
(* Claims about TextSanitizer                                              *)
(***************************************************************************)

\* the control characters: U+0000 to U+001F and U+007F
IsControl(c) == c \in (0..31) \cup { 127 }

\* C21: for every input text, the ASS-sanitized text contains no control
\* character, no backslash and no "{" or "}".
C21_NoControlBackslashBrace ==
    assPc = "out" =>
        \A i \in 1..Len(assOut) :
            /\ ~IsControl(assOut[i])
            /\ assOut[i] \notin { 92, 123, 125 }

(***************************************************************************)
(* Claims about Word.from_dict and _parse_words                            *)
(***************************************************************************)

\* C22: every Word built from a transcript entry and passed to segmentation
\* has finite start and end with start >= 0 and end >= start; an entry whose
\* end is before its start is kept with its end corrected, not dropped; the
\* words reach the segmenter sorted ascending by start.
C22_WordsWellFormedAndSorted ==
    parsePc = "parsed" =>
        /\ \A i \in 1..Len(parseOut) :
              /\ parseOut[i].start \in Int /\ parseOut[i].end \in Int
              /\ parseOut[i].start >= 0
              /\ parseOut[i].end >= parseOut[i].start
        /\ Len(parseOut) = CountWhere(parseIn, IsWellTimed)
        /\ \A i \in 1..Len(parseOut) : \A j \in 1..Len(parseOut) :
              i < j => parseOut[i].start <= parseOut[j].start

(***************************************************************************)
(* Claims about FilterGraphBuilder                                         *)
(***************************************************************************)

IsPrefix(s, t) == Len(s) <= Len(t) /\ SubSeq(t, 1, Len(s)) = s

\* the labels a builder allocated, in the order of its chains
IsAllocated(chain) == chain.out[1] = "v"
AllocatedLabels(b) ==
    LET made == SelectSeq(b.chains, IsAllocated)
    IN  [i \in 1..Len(made) |-> made[i].out]

\* the labels are v0, v1, ... in call order, the graph of a finalized builder
\* is its chains with ";" between them and the pixel-format stage last
WellBuilt(b) ==
    /\ \A i \in 1..Len(AllocatedLabels(b)) : AllocatedLabels(b)[i] = << "v", i - 1 >>
    /\ b.finalized =>
          /\ Len(b.graph) = 2 * Len(b.chains) - 1
          /\ \A i \in 1..Len(b.graph) :
                IF i % 2 = 0 THEN b.graph[i].text = ";"
                ELSE /\ b.graph[i].text = "chain"
                     /\ b.graph[i].chain = b.chains[(i + 1) \div 2]
          /\ b.graph[Len(b.graph)].chain.filter[1] = "format=yuv420p"

\* both builders have been given the whole sequence of calls, finalize included
SameCallsMade ==
    /\ builders["first"].finalized
    /\ builders["second"].finalized

C24_InflightBounded ==
    [][ /\ Inflight(rjobs') <= max_inflight'
        /\ (enqueues' # enqueues /\ Inflight(rjobs) = max_inflight) =>
              \E c \in Callers :
                  /\ callers'[c] # callers[c]
                  /\ callers'[c].exc = "QueueFullError"
      ]_vars

Terminal(job) == job.state \in { "success", "error" }

\* what one step may do to a job of the table
JobStep(old, new) ==
    /\ \/ new.state = old.state
       \/ old.state = "queued" /\ new.state = "running"
       \/ old.state = "running" /\ Terminal(new)
    /\ new.pct >= old.pct
    /\ Terminal(old) => new.state = old.state
    /\ new.mp4 # << >> => new.state = "success"

\* the request threads and the workers keep running; compose returns or raises
QueueFairness ==
    /\ \A c \in Callers : WF_vars(SubmitAndReturn(c) /\ UNCHANGED restQueue)
    /\ \A id \in QueueIds : WF_vars(ProcessStep(id) /\ UNCHANGED restQueue)

SpecQueueFair == InitQueue /\ [][NextQueue]_vars /\ QueueFairness

C29_FailedEnqueueLeavesNoTrace ==
    [][ \A c \in Callers :
          (callers'[c] # callers[c] /\ callers'[c].pc = "raised") =>
              /\ rjobs' = rjobs
              /\ rtasks' = rtasks
              /\ callers'[c].ret = NoJobId
              /\ callers'[c].job_id \notin DOMAIN rjobs' \cup DOMAIN rtasks'
      ]_vars

\* the first enqueue drew job id 1 and failed in prepare_manifest on an asset
\* that is not there, the second registered job 2 and returned its id: the
\* table and the executor hold job 2 only
C29_Witness ==
    /\ callers["r1"].pc = "raised" /\ callers["r1"].exc = "FileNotFoundError"
    /\ callers["r1"].job_id = 1 /\ callers["r1"].ret = NoJobId
    /\ callers["r2"].pc = "returned" /\ callers["r2"].ret = 2
    /\ DOMAIN rjobs = { 2 }
    /\ DOMAIN rtasks = { 2 }

(***************************************************************************)
(* Claims about the models in use                                          *)
(***************************************************************************)

\* C25: a cached ASR model is never released (unloaded) while a
\* transcription that obtained it from the cache is still running, under any
\* interleaving of concurrent transcribe_words calls, close, close_all and
\* loads of other keys that evict it.
C25_NotReleasedWhileInUse ==
    \A t \in Threads :
        threads[t].pc = "transcribing" => released[threads[t].model] = 0

(***************************************************************************)
(* Claims about the job table of the HTTP backend                          *)
(***************************************************************************)

\* C26: the status a client can observe for one job id never moves
\* backwards in the order queued, running, done/error: a job that has been
\* observed as running is never afterwards observed as queued, and a job
\* observed as done or error is never afterwards observed in another status.
C26_StatusNeverMovesBack ==
    [][ \A id \in RequestIds :
          /\ lastSeen[id] = "running" => lastSeen'[id] # "queued"
          /\ lastSeen[id] \in { "done", "error" } => lastSeen'[id] = lastSeen[id]
      ]_vars

(***************************************************************************)
(* Claims about the built-in defaults of the HTTP backends                 *)
(***************************************************************************)

\* a request that names one audio file and a background and sets no option:
\* the loudness targets are the defaults of _build_config_from_json
PlainRequest(req) ==
    /\ req.path \in { "main", "backend" }
    /\ req.segments = 1
    /\ req.target_lufs = Fin(DefaultLufsTenths)
    /\ req.target_lra = Fin(DefaultLraTenths)
    /\ req.target_tp = Fin(DefaultTpTenths)
    /\ req.others_ok

\* C28: for every render request that names an existing audio file and an
\* existing background file and sets no other option, the configuration
\* built by _build_config_from_json passes ProjectCfg.validate, so such a
\* job is never reported as error because of validation.
C28_DefaultsPassValidation ==
    \A j \in JobIds :
        (jobs[j].pc # "idle" /\ PlainRequest(jobs[j].req)) =>
            /\ ProjectCfg_validate(BuildConfig(jobs[j].req))
            /\ jobs[j].err # "validation"

(***************************************************************************)
(* C30: schedule_broll returns at most 100 intervals; every interval has   *)
(* 0 <= start < end <= total_dur, the starts increase strictly and no two  *)
(* intervals overlap; the result is empty when use is false,               *)
(* total_dur <= 0.1 or duration_s <= 0.05, and has at most one interval    *)
(* when every_s <= 0.                                                      *)
(***************************************************************************)
C30_BrollIntervalsWithinVideo ==
    brollPc = "returned" =>
        LET a == brollArgs
            r == brollRet
        IN  /\ Len(r) <= MaxBroll
            /\ \A i \in 1..Len(r) :
                   /\ BLessEq(Fin(0), r[i][1])
                   /\ BLess(r[i][1], r[i][2])
                   /\ BLessEq(r[i][2], a.total_dur)
            /\ \A i \in 1..(Len(r) - 1) :
                   /\ BLess(r[i][1], r[i + 1][1])
                   /\ BLessEq(r[i][2], r[i + 1][1])
            /\ (~a.use \/ BLessEq(a.total_dur, Fin(Ms(100)))
                       \/ BLessEq(a.duration_s, Fin(Ms(50)))) => r = << >>
            /\ BLessEq(a.every_s, Fin(0)) => Len(r) <= 1

====
